---------------------------- MODULE Spec2Model ----------------------------
(***************************************************************************)
(* A model of two parts of torch-mlir:                                     *)
(*                                                                         *)
(*  - the com.microsoft ONNX rewrite rules registered by                   *)
(*    populateComMicrosoftDomain (ComMicrosoftDomain.cpp).  A rule is a    *)
(*    function from an operator record to the operations the rewriter      *)
(*    created, the outcome (success / failure), the diagnostic attached    *)
(*    to a failure and the replacement values.  Operations are listed in   *)
(*    the order the code creates them; values carry the names of the C++   *)
(*    variables that hold them.                                            *)
(*                                                                         *)
(*  - the finalizing backend type conversion passes                        *)
(*    (BackendTypeConversionPasses.cpp): bridging elimination by a full    *)
(*    dialect conversion, the ExtF/TruncF cleanup and stripTorchAttrs.     *)
(***************************************************************************)
EXTENDS Integers, Sequences, FiniteSets, TLC

VARIABLES
  rule,        \* name of the rule last applied, "none" before any
  rec,         \* the operator record the rule was applied to
  outcome,     \* "idle" | "success" | "failure"
  diag,        \* reason attached to a failure ("" for a bare failure())
  created,     \* operations created through the rewriter, in order
  replaced,    \* values the original operation was replaced with
  sem,         \* run-time meaning of tensors the claims speak about
  ub,          \* the rule read a container out of bounds
  pc,          \* position inside the finalizing pass
  variant,     \* "default" | "stablehlo"
  func0,       \* the function the pass was started on
  func,        \* the function being rewritten
  attrs0,      \* the function's dialect attributes at the start
  attrs,       \* the function's dialect attributes
  attrsWritten,\* setDialectAttrs was called
  passFailed,  \* signalPassFailure() was called
  stepsRun,    \* the steps the pass has run, in order
  examinedOp,  \* the operation the conversion target was asked about
  declaredLegal, \* its answer: "unasked" | "legal" | "illegal"
  registry,    \* the registered rules: (name, minimum version) pairs
  node,        \* the node handed to the dispatcher
  selected,    \* the rule it selected: "undecided" | "none" | a pair
  quantPc,     \* "idle" | "dequantized" | "quantized"
  quantIn,     \* a raw integer with its dtype, scale and zero point
  dequantized, \* its dequantized f32 value
  requantized  \* the raw integer quantized back from that value

ruleVars == <<rule, rec, outcome, diag, created, replaced, sem, ub>>
passVars == <<pc, variant, func0, func, attrs0, attrs, attrsWritten, passFailed, stepsRun>>
targetVars == <<examinedOp, declaredLegal>>
registryVars == <<registry, node, selected>>
quantVars == <<quantPc, quantIn, dequantized, requantized>>
vars == <<rule, rec, outcome, diag, created, replaced, sem, ub,
          pc, variant, func0, func, attrs0, attrs, attrsWritten, passFailed,
          stepsRun, examinedOp, declaredLegal, registry, node, selected,
          quantPc, quantIn, dequantized, requantized>>

-----------------------------------------------------------------------------
(* Bounds of the model.                                                    *)

MaxBatch == 2
MaxSeq == 3
MaxTotal == 4
MaxK == 3
MaxOps == 2
MaxVersion == 3

-----------------------------------------------------------------------------
(* Types, values and operations.                                           *)

\* A tensor type with known rank (sizes; -1 is kUnknownSize).
TensorTy(s) == [hasSizes |-> TRUE, sizes |-> s]
\* A tensor type without sizes, and the type of a non-tensor value.
NoSizesTy == [hasSizes |-> FALSE, sizes |-> <<>>]

\* rewriter.create<...>: the result value `res`, the operation name, the
\* operand values, the declared result type and an integer attribute.
MkOp(res, name, args, ty, val) ==
  [res |-> res, op |-> name, args |-> args, ty |-> ty, val |-> val]

\* A tensor type with the sizes of ty and the element type elem: "f32",
\* "result" (that of the declared result type) or "qresult" (the
\* quantized type getQTorchTypeFromTorchIntType gives for the result type).
WithDtype(ty, elem) == [hasSizes |-> ty.hasSizes, sizes |-> ty.sizes, elem |-> elem]

ConstInt(res, v) == MkOp(res, "torch.constant.int", <<>>, NoSizesTy, v)
ConstFloat(res, v) == MkOp(res, "torch.constant.float", <<>>, NoSizesTy, v)
ConstBool(res, v) == MkOp(res, "torch.constant.bool", <<>>, NoSizesTy, v)
ConstNone(res) == MkOp(res, "torch.constant.none", <<>>, NoSizesTy, 0)
ListOf(res, args) == MkOp(res, "torch.prim.ListConstruct", args, NoSizesTy, 0)

\* What a rule returns, with what it did to the rewriter on the way.
Result(o, d, ops, repl, s) ==
  [outcome |-> o, diag |-> d, created |-> ops, replaced |-> repl, sem |-> s,
   ub |-> FALSE]

NoSem == [valid |-> FALSE]

\* return failure();
Failure(ops) == Result("failure", "", ops, <<>>, NoSem)
\* return rewriter.notifyMatchFailure(binder.op, msg);
NotifyMatchFailure(msg, ops) == Result("failure", msg, ops, <<>>, NoSem)
\* rewriter.replaceOp(...); return success();
Success(ops, repl, s) == Result("success", "", ops, repl, s)

\* OpBinder attribute getters: the attribute's value, or the default when
\* the operation does not carry it.
AttrOr(as, name, default) == IF name \in DOMAIN as THEN as[name] ELSE default

RECURSIVE Product(_)
Product(s) == IF s = <<>> THEN 1 ELSE Head(s) * Product(Tail(s))

CountOps(ops, name) == Cardinality({i \in DOMAIN ops : ops[i].op = name})
OpsNamed(ops, name) == {ops[i] : i \in {j \in DOMAIN ops : ops[j].op = name}}
OpOf(ops, res) == CHOOSE o \in {ops[i] : i \in DOMAIN ops} : o.res = res
HasRes(ops, res) == \E i \in DOMAIN ops : ops[i].res = res

-----------------------------------------------------------------------------
(* Helpers of Utils.cpp used by the rules.                                 *)

\* std::swap of two entries of a size list (0-based positions).
SwapDims(s, a, b) ==
  [i \in DOMAIN s |-> IF i = a + 1 THEN s[b + 1]
                      ELSE IF i = b + 1 THEN s[a + 1] ELSE s[i]]

\* createTorchTransposeOp: fails on a type without sizes, else creates the
\* two dimension constants and the transpose.
createTorchTransposeOp(input, ty, dimA, dimB, res) ==
  IF ~ty.hasSizes
    THEN [ok |-> FALSE, ops |-> <<>>, value |-> input, ty |-> ty]
    ELSE LET tty == TensorTy(SwapDims(ty.sizes, dimA, dimB))
         IN [ok |-> TRUE,
             ops |-> << ConstInt(res \o ".dimA", dimA),
                        ConstInt(res \o ".dimB", dimB),
                        MkOp(res, "torch.aten.transpose.int",
                             <<input, res \o ".dimA", res \o ".dimB">>, tty, 0) >>,
             value |-> res, ty |-> tty]

\* Torch::getTensorRank: the rank, or -1 for std::nullopt.
getTensorRank(ty) == IF ty.hasSizes THEN Len(ty.sizes) ELSE -1

RECURSIVE Flatten(_)
Flatten(ss) == IF ss = <<>> THEN <<>> ELSE Head(ss) \o Flatten(Tail(ss))

\* A rule body is a sequence of steps in code order.  A step either passes,
\* possibly creating operations, or returns a failure with its message
\* ("" for a bare failure()); what earlier steps created stays created.
Step(ok, msg, ops) == [ok |-> ok, msg |-> msg, ops |-> ops]
Check(cond, msg) == Step(cond, msg, <<>>)
Emit(ops) == Step(TRUE, "", ops)

RunSteps(steps) ==
  LET bad == {i \in DOMAIN steps : ~steps[i].ok}
  IN IF bad = {}
       THEN [ok |-> TRUE, msg |-> "", ops |-> Flatten([i \in DOMAIN steps |-> steps[i].ops])]
       ELSE LET k == CHOOSE i \in bad : \A j \in bad : i <= j
            IN [ok |-> FALSE, msg |-> steps[k].msg,
                ops |-> Flatten([i \in 1..k |-> steps[i].ops])]

Finish(run, repl, s) ==
  IF run.ok THEN Success(run.ops, repl, s)
  ELSE IF run.msg = "" THEN Failure(run.ops)
  ELSE NotifyMatchFailure(run.msg, run.ops)

\* extractPerTensorQuantizationArguments: fails, before creating anything,
\* unless scale and zero point are per-tensor; else extracts both scalars.
extractPerTensorQuantizationArguments(perTensor, scale, zeroPoint, outScale, outZp, msg) ==
  IF ~perTensor THEN Step(FALSE, msg, <<>>)
  ELSE Emit(<< MkOp(outScale, "torch.aten.item", <<scale>>, NoSizesTy, 0),
               MkOp(outZp, "torch.aten.item", <<zeroPoint>>, NoSizesTy, 0) >>)

\* createDequantizeTensor: fails on an input without sizes; else wraps the
\* integer tensor with (scale, zero point) and dequantizes it to f32.
createDequantizeTensor(sized, input, scale, zeroPoint, output, msg) ==
  IF ~sized THEN Step(FALSE, msg, <<>>)
  ELSE Emit(<< MkOp(output \o ".q", "torch.aten._make_per_tensor_quantized_tensor",
                    <<input, scale, zeroPoint>>, NoSizesTy, 0),
               MkOp(output, "torch.aten.dequantize.self", <<output \o ".q">>,
                    WithDtype(NoSizesTy, "f32"), 0) >>)

-----------------------------------------------------------------------------
(* FusedMatMul (ComMicrosoftDomain.cpp 935-990).                           *)

MatrixShapes == { <<2, 3>>, <<3, 3>>, <<4, 2, 3>> }
OperandTypes == {NoSizesTy} \cup {TensorTy(s) : s \in MatrixShapes}

FusedMatMulRecords ==
  [ nOperands : {1, 2, 3}, attrsBind : BOOLEAN, resultBinds : BOOLEAN,
    transA : {0, 1, 2}, transB : {0, 1, 2},
    transBatchA : {0, 1}, transBatchB : {0, 1},
    lhsTy : OperandTypes, rhsTy : OperandTypes ]

\* binder.tensorOperands(lhs, rhs) || s64IntegerAttr... || tensorResultType
FusedMatMulBinds(r) == r.nOperands = 2 /\ r.attrsBind /\ r.resultBinds

\* A variant that lets transA decide the transposition of both sides.
TransposeRequestedMutB(r, side) == r.transA # 0

\* if (transA) / if (transB): a transposition is requested.
TransposeRequested(r, side) == IF side = "lhs" THEN r.transA # 0 ELSE r.transB # 0

\* A variant that looks at transBatchA only.
TransBatchRequestedMut(r) == r.transBatchA # 0

\* if (transBatchA || transBatchB)
TransBatchRequested(r) == r.transBatchA # 0 \/ r.transBatchB # 0

\* One "Transposing the LHS/RHS argument" block: the value that reaches the
\* matmul, the operations created and the failure raised, if any.  The
\* operands of the model have rank >= 2, so the unsigned rank - 2 and
\* rank - 1 do not wrap.
MatMulSide(r, side) ==
  LET ty == IF side = "lhs" THEN r.lhsTy ELSE r.rhsTy
      res == IF side = "lhs" THEN "transposedLhs" ELSE "transposedRhs"
      rank == getTensorRank(ty)
  IN IF ~TransposeRequested(r, side)
       THEN [ok |-> TRUE, msg |-> "", ops |-> <<>>, value |-> side]
       ELSE IF rank = -1
         THEN [ok |-> FALSE, msg |-> "Unimplemented: unranked " \o side \o " tensor",
               ops |-> <<>>, value |-> side]
         ELSE LET t == createTorchTransposeOp(side, ty, rank - 2, rank - 1, res)
              IN IF ~t.ok
                   THEN [ok |-> FALSE,
                         msg |-> "Failed to create TorchTranspose op for " \o side,
                         ops |-> t.ops, value |-> side]
                   ELSE [ok |-> TRUE, msg |-> "", ops |-> t.ops, value |-> t.value]

FusedMatMul(r) ==
  IF ~FusedMatMulBinds(r) THEN Failure(<<>>)
  ELSE LET l == MatMulSide(r, "lhs")
       IN IF ~l.ok THEN NotifyMatchFailure(l.msg, l.ops)
          ELSE LET rh == MatMulSide(r, "rhs")
               IN IF ~rh.ok THEN NotifyMatchFailure(rh.msg, l.ops \o rh.ops)
                  ELSE IF TransBatchRequested(r)
                    THEN NotifyMatchFailure(
                           "Unimplemented: support not present for transBatchA and transBatchB attribute",
                           l.ops \o rh.ops)
                    ELSE Success(
                           l.ops \o rh.ops \o
                             << MkOp("matmul", "torch.aten.matmul",
                                     <<l.value, rh.value>>, NoSizesTy, 0) >>,
                           <<"matmul">>, NoSem)

-----------------------------------------------------------------------------
(* RotaryEmbedding (ComMicrosoftDomain.cpp 22-65).                         *)

RotaryAttrNames ==
  {"interleaved", "is_packed_batching", "num_heads", "rotary_embedding_dim", "scale"}

RotaryAttrSets == { [n \in d |-> 1] : d \in SUBSET RotaryAttrNames }
                    \cup { [n \in d |-> 2] : d \in {{"scale"}, {"interleaved", "num_heads"}} }

RotaryEmbeddingRecords ==
  [ nOperands : {3, 4}, attrsBind : BOOLEAN, resultBinds : BOOLEAN,
    attrs : RotaryAttrSets ]

\* A variant in which every absent attribute defaults to 0.
RotaryDefaultMut(name) == 0

\* The defaults given to the attribute getters (lines 33-38).
RotaryDefault(name) == IF name = "scale" THEN 1 ELSE 0

RotaryEmbedding(r) ==
  IF r.nOperands < 4 \/ ~r.attrsBind
    THEN NotifyMatchFailure("Failed to get required inputs", <<>>)
  ELSE IF ~r.resultBinds
    THEN NotifyMatchFailure("result type bind failure", <<>>)
  ELSE Success(
         << ConstInt("cstInterleaved",
                     AttrOr(r.attrs, "interleaved", RotaryDefault("interleaved"))),
            ConstInt("cstIsPackedBatching",
                     AttrOr(r.attrs, "is_packed_batching", RotaryDefault("is_packed_batching"))),
            ConstInt("cstNumHeads", AttrOr(r.attrs, "num_heads", RotaryDefault("num_heads"))),
            ConstInt("cstRotaryEmbeddingDim",
                     AttrOr(r.attrs, "rotary_embedding_dim", RotaryDefault("rotary_embedding_dim"))),
            ConstFloat("cstScale", AttrOr(r.attrs, "scale", RotaryDefault("scale"))),
            \* input, positionIds, cosCache, sinCache are operands 0..3
            MkOp("rotary", "torch.onnx.rotary_embedding",
                 << "operands[0]", "operands[1]", "operands[2]", "operands[3]",
                    "cstInterleaved", "cstIsPackedBatching", "cstNumHeads",
                    "cstRotaryEmbeddingDim", "cstScale" >>,
                 WithDtype(NoSizesTy, "result"), 0) >>,
         <<"rotary">>, NoSem)

-----------------------------------------------------------------------------
(* The quantized rules (ComMicrosoftDomain.cpp 458-934, 991-1059).         *)

PerTensorMsg == "Incompatible arguments for per-tensor quantization"
\* (the source quotes the tensor's name with backquotes)
DequantMsg(x) == "Failed to dequantize the input tensor " \o x \o " because of missing sizes"

\* A variant that passes zero point and scale in each other's place.
RequantizeMut(v, scale, zeroPoint) ==
  << ConstInt("dtyVal", 0),
     MkOp("quantized", "torch.aten.quantize_per_tensor",
          <<v, zeroPoint, scale, "dtyVal">>, WithDtype(NoSizesTy, "qresult"), 0),
     MkOp("int_repr", "torch.aten.int_repr", <<"quantized">>,
          WithDtype(NoSizesTy, "result"), 0) >>

\* Requantization of the f32 value v with the output's scale and zero
\* point to the quantized dtype of the declared result type
\* (getQTorchTypeFromTorchIntType(resultType)), then int_repr.
Requantize(v, scale, zeroPoint) ==
  << ConstInt("dtyVal", 0),
     MkOp("quantized", "torch.aten.quantize_per_tensor",
          <<v, scale, zeroPoint, "dtyVal">>, WithDtype(NoSizesTy, "qresult"), 0),
     MkOp("int_repr", "torch.aten.int_repr", <<"quantized">>,
          WithDtype(NoSizesTy, "result"), 0) >>

QLinearBinaryRecords ==
  [ nOperands : {7, 8, 9}, operandsBind : BOOLEAN, resultBinds : BOOLEAN,
    perTensor : [{"a", "b", "c"} -> BOOLEAN], sized : [{"a", "b"} -> BOOLEAN] ]

\* A variant that accepts more than eight operands.
BinaryArityOkMut(n) == n >= 8

\* if (operands.size() != 8)
BinaryArityOk(n) == n = 8

\* The body shared by QLinearAdd and QLinearMul, which differ in the
\* floating-point operation.
QLinearBinary(r, compute) ==
  Finish(RunSteps(<<
      Check(r.operandsBind /\ r.resultBinds, ""),
      Check(BinaryArityOk(r.nOperands), "Unimplemented: expected 8 input operands"),
      extractPerTensorQuantizationArguments(r.perTensor["a"], "operands[1]",
          "operands[2]", "aScale", "aZp", PerTensorMsg),
      extractPerTensorQuantizationArguments(r.perTensor["b"], "operands[4]",
          "operands[5]", "bScale", "bZp", PerTensorMsg),
      extractPerTensorQuantizationArguments(r.perTensor["c"], "operands[6]",
          "operands[7]", "cScale", "cZp", PerTensorMsg),
      createDequantizeTensor(r.sized["a"], "operands[0]", "aScale", "aZp", "a",
          DequantMsg("a")),
      createDequantizeTensor(r.sized["b"], "operands[3]", "bScale", "bZp", "b",
          DequantMsg("b")),
      Emit(compute),
      Emit(Requantize("c", "cScale", "cZp")) >>),
    <<"int_repr">>, NoSem)

QLinearAdd(r) ==
  QLinearBinary(r, << ConstFloat("alpha", 1),
                      MkOp("c", "torch.aten.add.Tensor", <<"a", "b", "alpha">>,
                           WithDtype(NoSizesTy, "f32"), 0) >>)

QLinearMul(r) ==
  QLinearBinary(r, << MkOp("c", "torch.aten.mul.Tensor", <<"a", "b">>,
                           WithDtype(NoSizesTy, "f32"), 0) >>)

QLinearUnaryRecords ==
  [ nOperands : {4, 5, 6}, operandsBind : BOOLEAN, resultBinds : BOOLEAN,
    attrsBind : BOOLEAN, channelsLast : {0, 1},
    perTensor : [{"x", "y"} -> BOOLEAN], sized : [{"x"} -> BOOLEAN] ]

\* if (operands.size() != 5)
UnaryArityOk(n) == n = 5

\* The steps QLinearLeakyRelu, QLinearSigmoid and QLinearAveragePool share
\* after their operand-count check.
DequantizeX(r) ==
  << extractPerTensorQuantizationArguments(r.perTensor["x"], "operands[1]",
         "operands[2]", "xScale", "xZp", PerTensorMsg),
     extractPerTensorQuantizationArguments(r.perTensor["y"], "operands[3]",
         "operands[4]", "yScale", "yZp", PerTensorMsg),
     createDequantizeTensor(r.sized["x"], "operands[0]", "xScale", "xZp", "x",
         DequantMsg("x")) >>

QLinearLeakyRelu(r) ==
  Finish(RunSteps(
      << Check(r.operandsBind /\ r.resultBinds /\ r.attrsBind, ""),
         Check(UnaryArityOk(r.nOperands), "Unimplemented: expected 5 input operands") >>
      \o DequantizeX(r) \o
      << Emit(<< ConstFloat("constAlpha", 0),
                 MkOp("y", "torch.aten.leaky_relu", <<"x", "constAlpha">>,
                      WithDtype(NoSizesTy, "f32"), 0) >>),
         Emit(Requantize("y", "yScale", "yZp")) >>),
    <<"int_repr">>, NoSem)

QLinearSigmoid(r) ==
  Finish(RunSteps(
      << Check(r.operandsBind /\ r.resultBinds, ""),
         Check(UnaryArityOk(r.nOperands), "Unimplemented: expected 5 input operands") >>
      \o DequantizeX(r) \o
      << Emit(<< MkOp("y", "torch.aten.sigmoid", <<"x">>, WithDtype(NoSizesTy, "f32"), 0) >>),
         Emit(Requantize("y", "yScale", "yZp")) >>),
    <<"int_repr">>, NoSem)

\* The attribute dictionary of a QLinearAveragePool operator, sorted by name
\* as a dictionary attribute is: its "name" and any of the attributes the
\* importer gives it.  channels_last is present when it is not the default.
AveragePoolAttrNames ==
  << "name", "torch.onnx.channels_last", "torch.onnx.kernel_shape", "torch.onnx.strides" >>

AveragePoolAttrValue(n, channelsLast) ==
  IF n = "name" THEN "onnx.QLinearAveragePool"
  ELSE IF n = "torch.onnx.channels_last" THEN ToString(channelsLast)
  ELSE IF n = "torch.onnx.kernel_shape" THEN "[2, 2]"
  ELSE "[1, 1]"

AveragePoolAttrDictionaries(channelsLast) ==
  { [ i \in 1..Cardinality(keep) |->
        LET k == CHOOSE j \in keep : Cardinality({m \in keep : m < j}) = i - 1
        IN <<AveragePoolAttrNames[k], AveragePoolAttrValue(AveragePoolAttrNames[k], channelsLast)>> ] :
    keep \in { c \in SUBSET (1..Len(AveragePoolAttrNames)) :
                 1 \in c /\ (channelsLast # 0 => 2 \in c) } }

QLinearAveragePoolRecords ==
  UNION { { [ nOperands |-> r.nOperands, operandsBind |-> r.operandsBind,
              resultBinds |-> r.resultBinds, attrsBind |-> r.attrsBind,
              channelsLast |-> r.channelsLast, perTensor |-> r.perTensor,
              sized |-> r.sized, attrDictionary |-> d ] :
            d \in AveragePoolAttrDictionaries(r.channelsLast) } :
          r \in QLinearUnaryRecords }

\* A variant that copies every attribute, the original "name" included.
AveragePoolNewAttributesMut(dict) ==
  << <<"name", "onnx.AveragePool">> >> \o dict

\* newAttributes: the new "name", then every attribute of the operator
\* that is not called "name".
AveragePoolNewAttributes(dict) ==
  << <<"name", "onnx.AveragePool">> >> \o SelectSeq(dict, LAMBDA a : a[1] # "name")

QLinearAveragePool(r) ==
  Finish(RunSteps(
      << Check(r.operandsBind /\ r.resultBinds /\ r.attrsBind, ""),
         Check(r.channelsLast = 0,
               "Unimplemented: support not present for channels_last attribute"),
         Check(UnaryArityOk(r.nOperands), "Unimplemented: expected 5 input operands") >>
      \o DequantizeX(r) \o
      << Emit(<< [ res |-> "averagePool", op |-> "torch.operator", args |-> <<"x">>,
                   ty |-> WithDtype(NoSizesTy, "f32"), val |-> 0,
                   attrs |-> AveragePoolNewAttributes(r.attrDictionary) ] >>),
         Emit(Requantize("averagePool", "yScale", "yZp")) >>),
    <<"int_repr">>, NoSem)

-----------------------------------------------------------------------------
(* QLinearConcat (ComMicrosoftDomain.cpp 590-675).                         *)

ConcatInputs == 1..2

QLinearConcatRecords ==
  [ nOperands : 0..8, operandsBind : BOOLEAN, attrsBind : BOOLEAN,
    resultBinds : BOOLEAN, perTensorIn : [ConcatInputs -> BOOLEAN],
    sizedIn : [ConcatInputs -> BOOLEAN], perTensorOut : BOOLEAN ]

\* for (unsigned i = 2; i < operands.size(); i = i + 3): the values of i.
ConcatLoopIndices(n) == {i \in 2..(n - 1) : (i - 2) % 3 = 0}
\* The operand indices the loop reads.
ConcatLoopReads(n) == UNION { {i, i + 1, i + 2} : i \in ConcatLoopIndices(n) }
\* unsigned numInputs = (operands.size() - 2) / 3; the subtraction is done
\* in size_t (64 bits) and the quotient cut to 32 bits:
\* (2^64 - 2) / 3 mod 2^32 = 1431655764, (2^64 - 1) / 3 mod 2^32 = 1431655765.
ConcatNumInputs(n) ==
  IF n >= 2 THEN (n - 2) \div 3 ELSE IF n = 1 THEN 1431655765 ELSE 1431655764

ConcatInputSteps(r, k) ==
  << extractPerTensorQuantizationArguments(r.perTensorIn[k],
         "operands[" \o ToString(3 * k) \o "]", "operands[" \o ToString(3 * k + 1) \o "]",
         "scale." \o ToString(k - 1), "zeroPoint." \o ToString(k - 1),
         "Incompatible scale and zero-points argument for per-tensor quantization"),
     createDequantizeTensor(r.sizedIn[k], "operands[" \o ToString(3 * k - 1) \o "]",
         "scale." \o ToString(k - 1), "zeroPoint." \o ToString(k - 1),
         "dequantizedInput." \o ToString(k - 1),
         "Failed to dequantize the input tensor because of missing sizes") >>

QLinearConcat(r) ==
  LET n == r.nOperands
      inputsSize == Cardinality(ConcatLoopIndices(n))
      numInputs == ConcatNumInputs(n)
      countsOk == inputsSize = numInputs
      loopOob == \E i \in ConcatLoopReads(n) : i >= n
      run == RunSteps(
        << Check(r.operandsBind /\ r.attrsBind /\ r.resultBinds, ""),
           Check(countsOk,
                 "Incompatible number of input operands, scales and/or zero-points") >>
        \o (IF countsOk THEN Flatten([k \in 1..numInputs |-> ConcatInputSteps(r, k)])
            ELSE <<>>) \o
        << Emit(<< ListOf("tensorList",
                          [k \in 1..(IF countsOk THEN numInputs ELSE 0) |->
                             "dequantizedInput." \o ToString(k - 1)]),
                   ConstInt("cstAxis", 0),
                   MkOp("concat", "torch.aten.cat", <<"tensorList", "cstAxis">>,
                        WithDtype(NoSizesTy, "f32"), 0) >>),
           extractPerTensorQuantizationArguments(r.perTensorOut, "operands[0]",
               "operands[1]", "yScale", "yZp",
               "Incompatible scale and zero-points argument for per-tensor quantization"),
           Emit(Requantize("concat", "yScale", "yZp")) >>)
      binds == r.operandsBind /\ r.attrsBind /\ r.resultBinds
      \* dequantizedInputs[0] is read once every input was dequantized.
      readsFirst == binds /\ countsOk
                    /\ \A k \in 1..numInputs : r.perTensorIn[k] /\ r.sizedIn[k]
  IN [ Finish(run, <<"int_repr">>, NoSem) EXCEPT
         !.ub = binds /\ (loopOob \/ (readsFirst /\ numInputs = 0)) ]

-----------------------------------------------------------------------------
(* QLinearGlobalAveragePool (ComMicrosoftDomain.cpp 676-801).              *)

PoolInputShapes ==
  { <<1, 2>>, <<1, 2, 4>>, <<1, 2, -1>>, <<1, 2, 4, 3>>, <<1, 2, 4, 3, 2>>,
    <<1, 2, 4, 3, 2, 2>> }

\* The result of a global pool keeps batch and channels and has spatial
\* size 1.
GlobalPoolResult(s) == [i \in DOMAIN s |-> IF i <= 2 THEN s[i] ELSE 1]

GlobalAveragePoolRecords ==
  UNION { [ nOperands : {4, 5, 6}, resultBinds : BOOLEAN, attrsBind : BOOLEAN,
            channelsLast : {0, 1}, xTy : {x}, resTy : {NoSizesTy, y},
            perTensor : [{"x", "y"} -> BOOLEAN] ] :
          <<x, y>> \in { <<NoSizesTy, TensorTy(<<1, 2, 1>>)>>,
                          \* a declared result of lower rank than the input
                          <<TensorTy(<<1, 2, 4>>), TensorTy(<<1, 2>>)>>,
                          <<TensorTy(<<1, 2, -1, 3>>), TensorTy(<<1, 2, 1>>)>> } \cup
                       { <<TensorTy(s), TensorTy(GlobalPoolResult(s))>> : s \in PoolInputShapes } }

\* The 0-based positions at which the loop reads resultShape[i]: the
\* static spatial dimensions of the input.
PoolResultShapeReads(inputShape) ==
  {i \in 2..(Len(inputShape) - 1) : inputShape[i + 1] # -1}

\* The body of the loop "for (unsigned i = 2; i < inputRank; i++)" for one
\* spatial dimension i (0-based): the operations created for the kernel.
PoolKernelOps(inputShape, resultShape, i) ==
  IF inputShape[i + 1] = -1
    THEN << ConstInt("dim." \o ToString(i), i),
            MkOp("inputDimSize." \o ToString(i), "torch.aten.size.int",
                 <<"x", "dim." \o ToString(i)>>, NoSizesTy, 0) >>
    ELSE << ConstInt("kernelSize." \o ToString(i),
                     \* a read past the end of resultShape (flagged as
                     \* undefined behaviour by the rule) stands as 0
                     inputShape[i + 1]
                       - (IF i + 1 \in DOMAIN resultShape THEN resultShape[i + 1] ELSE 0) + 1) >>
PoolKernelValue(inputShape, i) ==
  IF inputShape[i + 1] = -1 THEN "inputDimSize." \o ToString(i)
  ELSE "kernelSize." \o ToString(i)

\* if (inputRank == 3) ... else if (inputRank == 4) ... else if (== 5)
PoolOpForRank(rank) ==
  IF rank = 3 THEN "torch.aten.avg_pool1d"
  ELSE IF rank = 4 THEN "torch.aten.avg_pool2d"
  ELSE IF rank = 5 THEN "torch.aten.avg_pool3d" ELSE ""

QLinearGlobalAveragePool(r) ==
  LET front == RunSteps(
        << Check(r.nOperands = 5 /\ r.resultBinds /\ r.attrsBind, ""),
           Check(r.channelsLast = 0,
                 "Unimplemented: support not present for channels_last attribute"),
           Check(r.xTy.hasSizes, "Expected input argument x to have sizes"),
           Check(r.resTy.hasSizes, "Expected result type having sizes") >>)
  IN IF ~front.ok THEN Finish(front, <<>>, NoSem)
     ELSE
       LET inputShape == r.xTy.sizes
           resultShape == r.resTy.sizes
           inputRank == Len(inputShape)
           spatial == [k \in 1..(inputRank - 2) |-> k + 1]
           \* the loop runs once x was dequantized
           oob == r.perTensor["x"] /\ r.perTensor["y"]
                  /\ \E i \in PoolResultShapeReads(inputShape) : i >= Len(resultShape)
       IN [ Finish(RunSteps(
            DequantizeX([perTensor |-> r.perTensor, sized |-> [d \in {"x"} |-> TRUE]]) \o
            << Emit(<< ConstInt("cstZero", 0), ConstInt("cstOne", 1) >>),
               Emit(Flatten([k \in DOMAIN spatial |->
                               PoolKernelOps(inputShape, resultShape, spatial[k])])),
               Emit(<< ListOf("kernelSizeList",
                              [k \in DOMAIN spatial |-> PoolKernelValue(inputShape, spatial[k])]),
                       ListOf("paddingList", [k \in DOMAIN spatial |-> "cstZero"]),
                       ListOf("stridesList", [k \in DOMAIN spatial |-> "cstOne"]),
                       ConstBool("cstFalse", 0), ConstNone("cstNone") >>),
               Check(PoolOpForRank(inputRank) # "", ""),
               Emit(<< MkOp("avgpool", PoolOpForRank(inputRank),
                            <<"x", "kernelSizeList", "stridesList", "paddingList",
                              "cstFalse", "cstFalse">>
                            \o (IF inputRank = 3 THEN <<>> ELSE <<"cstNone">>),
                            WithDtype(TensorTy(resultShape), "f32"), 0) >>),
               Emit(Requantize("avgpool", "yScale", "yZp")) >>),
          <<"int_repr">>, NoSem) EXCEPT !.ub = oob ]

-----------------------------------------------------------------------------
(* GroupQueryAttention (ComMicrosoftDomain.cpp 66-457): run-time meaning   *)
(* of the tensor operations that build the rotary position ids.  A rank-2  *)
(* tensor is a sequence (rows) of sequences.                               *)

\* torch.aten.zeros of size (rows, cols)
AtenZeros(rows, cols) == [b \in 1..rows |-> [j \in 1..cols |-> 0]]
\* torch.aten.arange(end)
AtenArange(end) == [j \in 1..end |-> j - 1]
\* torch.aten.repeat of a vector with repeats (rows, 1)
AtenRepeat(v, rows) == [b \in 1..rows |-> v]
\* torch.aten.add.Scalar / sub.Scalar on a vector (alpha = 1)
AtenAddScalar(v, c) == [b \in DOMAIN v |-> v[b] + c]
\* A variant of sub.Scalar that is one too large.
AtenSubScalarMut(v, c) == [b \in DOMAIN v |-> v[b] - c + 1]
AtenSubScalar(v, c) == [b \in DOMAIN v |-> v[b] - c]
\* torch.aten.add.Tensor of a (rows, cols) tensor and a (rows, 1) column
AtenAddColumn(t, col) == [b \in DOMAIN t |-> [j \in DOMAIN t[b] |-> t[b][j] + col[b]]]
\* torch.aten.lt.Tensor of a (rows, cols) tensor and a (rows, 1) column
AtenLtColumn(t, col) == [b \in DOMAIN t |-> [j \in DOMAIN t[b] |-> t[b][j] < col[b]]]
\* torch.aten.where.self with a scalar tensor as the other value
AtenWhereScalar(c, t, other) ==
  [b \in DOMAIN t |-> [j \in DOMAIN t[b] |-> IF c[b][j] THEN t[b][j] ELSE other]]
\* torch.aten.where.self of two tensors of the same shape
AtenWhereSelf(c, t, e) ==
  [b \in DOMAIN t |-> [j \in DOMAIN t[b] |-> IF c[b][j] THEN t[b][j] ELSE e[b][j]]]
\* torch.aten.full of size (rows, cols)
AtenFull(rows, cols, v) == [b \in 1..rows |-> [j \in 1..cols |-> v]]

\* The value the code gives the constant it calls cstIntMinusOne.
cstIntMinusOneValue == 1

\* torch.aten.view of a vector of n elements: the sizes asked for fit when
\* their product is n, one -1 standing for the missing factor.
ViewSizesFit(sizes, n) ==
  LET known == SelectSeq(sizes, LAMBDA x : x # -1)
  IN IF Len(known) = Len(sizes) THEN Product(sizes) = n
     ELSE Len(known) = Len(sizes) - 1 /\ Product(known) # 0 /\ n % Product(known) = 0

\* The fresh-prompt position ids: what positionIdsA holds.
FreshPromptIds(batchSize, sequenceLength) == AtenZeros(batchSize, sequenceLength)

\* The meaning of the "if (doRotary)" block for a record with run-time
\* values totalSequenceLength (a scalar tensor) and seqlensK.
GQARotarySem(r) ==
  LET batchSize == r.queryDims[1]
      sequenceLength == r.queryDims[2]
      condA == sequenceLength > 1
      condB == sequenceLength # r.totalSequenceLength
      isSubsequentPrompt == condA /\ condB
      positionIdsA == FreshPromptIds(batchSize, sequenceLength)
      totalSeqLens == AtenAddScalar(r.seqlensK, 1)
      pastSeqLens == AtenSubScalar(totalSeqLens, sequenceLength)
      initPosIds == AtenArange(sequenceLength)
      repeated == AtenRepeat(initPosIds, batchSize)
      viewSizeList == <<cstIntMinusOneValue, 1>>
      added == AtenAddColumn(repeated, pastSeqLens)
      cond == AtenLtColumn(added, totalSeqLens)
      positionIdsB == AtenWhereScalar(cond, added, 1)
      full == AtenFull(batchSize, sequenceLength, isSubsequentPrompt)
      positionIds == AtenWhereSelf(full, positionIdsB, positionIdsA)
  IN [ valid |-> TRUE, isSubsequentPrompt |-> isSubsequentPrompt,
       unclamped |-> added, cond |-> cond, positionIdsB |-> positionIdsB,
       positionIds |-> positionIds, viewSizeList |-> viewSizeList,
       viewFits |-> ViewSizesFit(viewSizeList, batchSize) ]

-----------------------------------------------------------------------------
(* GroupQueryAttention: the rule.                                          *)

I64Ty(s) == TensorTy(s)

\* A variant of the arity check that accepts 7 operands with do_rotary set.
GQAArityOkMut(n, doRotary) == n = 9 \/ n = 7

\* The arity check (line 101): 9 operands, or 7 without rotary embedding.
GQAArityOk(n, doRotary) == n = 9 \/ (doRotary = 0 /\ n = 7)

\* The operand indices read after the checks (lines 137-148): 0..6, and
\* 7 and 8 (cos_cache, sin_cache) under "if (doRotary)".
GQAOperandReads(r) ==
  (0..6) \cup (IF AttrOr(r.attrs, "do_rotary", 0) # 0 THEN {7, 8} ELSE {})

\* A variant whose checks accept a query with unknown sizes.
GQAValidationMut(r) ==
  LET a == r.attrs
      doRotary == AttrOr(a, "do_rotary", 0)
      n == r.nOperands
  IN RunSteps(<<
       Check(r.bindFail # "operands", "operands bind failure"),
       Check(r.bindFail # "resultTypes", "result types bind failure"),
       Check(r.nResults = 3, "expected 3 result types"),
       Check(r.bindFail # "attrs", "op attributes bind failure"),
       Check(GQAArityOk(n, doRotary),
             "Unimplemented:  excepted input operands to be either 7 or 9 based on the do_rotary attribute"),
       Check(AttrOr(a, "kv_num_heads", 0) # 0,
             "kv_num_heads is a required attribute and should be non-zero"),
       Check(AttrOr(a, "local_window_size", -1) = -1,
             "Unimplemented: local_window_size attribute is not supported, hence it should have default value equal to -1"),
       Check(AttrOr(a, "num_heads", 0) # 0,
             "num_heads is a required attribute and should be non-zero"),
       Check(AttrOr(a, "smooth_softmax", 0) = 0,
             "Unimplemented: smooth_softmax attribute is not supported, hence it should have default value equal to 0"),
       Check(AttrOr(a, "softcap", 0) = 0,
             "Unimplemented: softcap attribute is not supported, hence it should have default value equal to 0.0"),
       Check(TRUE, "Expected query input to have statically known sizes") >>)

\* The checks made before anything is created (lines 74-131, 150-155).
GQAValidation(r) ==
  LET a == r.attrs
      doRotary == AttrOr(a, "do_rotary", 0)
      n == r.nOperands
  IN RunSteps(<<
       Check(r.bindFail # "operands", "operands bind failure"),
       Check(r.bindFail # "resultTypes", "result types bind failure"),
       Check(r.nResults = 3, "expected 3 result types"),
       Check(r.bindFail # "attrs", "op attributes bind failure"),
       Check(GQAArityOk(n, doRotary),
             "Unimplemented:  excepted input operands to be either 7 or 9 based on the do_rotary attribute"),
       Check(AttrOr(a, "kv_num_heads", 0) # 0,
             "kv_num_heads is a required attribute and should be non-zero"),
       Check(AttrOr(a, "local_window_size", -1) = -1,
             "Unimplemented: local_window_size attribute is not supported, hence it should have default value equal to -1"),
       Check(AttrOr(a, "num_heads", 0) # 0,
             "num_heads is a required attribute and should be non-zero"),
       Check(AttrOr(a, "smooth_softmax", 0) = 0,
             "Unimplemented: smooth_softmax attribute is not supported, hence it should have default value equal to 0"),
       Check(AttrOr(a, "softcap", 0) = 0,
             "Unimplemented: softcap attribute is not supported, hence it should have default value equal to 0.0"),
       Check(r.queryStatic, "Expected query input to have statically known sizes") >>)

\* The operations of the "if (doRotary)" block (lines 228-390).
GQARotaryOps(r, qTy) ==
  LET batchSize == r.queryDims[1]
      sequenceLength == r.queryDims[2]
      positionIdsType == I64Ty(<<batchSize, sequenceLength>>)
      seqLensViewType == I64Ty(<<batchSize, 1>>)
  IN << MkOp("scalarTotalSeqLens", "torch.aten.item", <<"totalSequenceLength">>, NoSizesTy, 0),
        ConstInt("cstIntOne", 1),
        MkOp("condA", "torch.aten.gt.int", <<"cstSequenceLength", "cstIntOne">>, NoSizesTy, 0),
        MkOp("condB", "torch.aten.ne.int", <<"cstSequenceLength", "scalarTotalSeqLens">>, NoSizesTy, 0),
        MkOp("isSubsequentPrompt", "torch.aten.__and__.bool", <<"condA", "condB">>, NoSizesTy, 0),
        ConstInt("cstInt64Dtype", 4),
        ConstInt("cstInterleaved", AttrOr(r.attrs, "rotary_interleaved", 0)),
        ConstInt("cstIntZero", 0),
        ConstFloat("cstFloatOne", 1),
        ListOf("posIdsSizeList", <<"cstBatchSize", "cstSequenceLength">>),
        MkOp("positionIdsA", "torch.aten.zeros",
             <<"posIdsSizeList", "cstInt64Dtype", "cstNone", "cstNone", "cstNone">>,
             positionIdsType, 0),
        MkOp("seqlensK.i64", "torch.aten.to.dtype",
             <<"seqlensK", "cstInt64Dtype", "cstFalse", "cstFalse", "cstNone">>, NoSizesTy, 0),
        MkOp("totalSeqLens", "torch.aten.add.Scalar",
             <<"seqlensK.i64", "cstIntOne", "cstIntOne">>, NoSizesTy, 0),
        MkOp("pastSeqLens", "torch.aten.sub.Scalar",
             <<"totalSeqLens", "cstSequenceLength", "cstIntOne">>, NoSizesTy, 0),
        MkOp("initPosIds", "torch.aten.arange",
             <<"cstSequenceLength", "cstInt64Dtype", "cstNone", "cstNone", "cstNone">>,
             I64Ty(<<sequenceLength>>), 0),
        ListOf("repeatValuesList", <<"cstBatchSize", "cstIntOne">>),
        MkOp("positionIdsB", "torch.aten.repeat", <<"initPosIds", "repeatValuesList">>,
             positionIdsType, 0),
        ConstInt("cstIntMinusOne", cstIntMinusOneValue),
        ListOf("viewSizeList", <<"cstIntMinusOne", "cstIntOne">>),
        MkOp("pastSeqLens.view", "torch.aten.view", <<"pastSeqLens", "viewSizeList">>,
             seqLensViewType, 0),
        MkOp("positionIdsB.add", "torch.aten.add.Tensor",
             <<"positionIdsB", "pastSeqLens.view", "cstIntOne">>, positionIdsType, 0),
        MkOp("totalSeqLens.view", "torch.aten.view", <<"totalSeqLens", "viewSizeList">>,
             seqLensViewType, 0),
        MkOp("cond", "torch.aten.lt.Tensor", <<"positionIdsB.add", "totalSeqLens.view">>,
             positionIdsType, 0),
        ListOf("cstOneTensorDataList", <<"cstIntOne">>),
        MkOp("cstOneTensor", "torch.aten.tensor",
             <<"cstOneTensorDataList", "cstInt64Dtype", "cstNone", "cstFalse">>, I64Ty(<<>>), 0),
        MkOp("positionIdsB.where", "torch.aten.where.self",
             <<"cond", "positionIdsB.add", "cstOneTensor">>, positionIdsType, 0),
        MkOp("isSubsequentPrompt.int", "torch.aten.Int.bool", <<"isSubsequentPrompt">>,
             NoSizesTy, 0),
        ConstInt("cstBoolDtype", 11),
        MkOp("isSubsequentPrompt.full", "torch.aten.full",
             <<"posIdsSizeList", "isSubsequentPrompt.int", "cstBoolDtype", "cstNone",
               "cstNone", "cstNone">>, positionIdsType, 0),
        MkOp("positionIds", "torch.aten.where.self",
             <<"isSubsequentPrompt.full", "positionIdsB.where", "positionIdsA">>,
             positionIdsType, 0),
        MkOp("qRotary", "torch.onnx.rotary_embedding",
             <<"qInput", "positionIds", "cosCache", "sinCache", "cstInterleaved",
               "cstIntZero", "cstIntZero", "cstIntZero", "cstFloatOne">>, qTy, 0),
        \* declared with qInput.getType(), as the source does
        MkOp("kRotary", "torch.onnx.rotary_embedding",
             <<"kInput", "positionIds", "cosCache", "sinCache", "cstInterleaved",
               "cstIntZero", "cstIntZero", "cstIntZero", "cstFloatOne">>, qTy, 0) >>

\* A variant that takes the key sizes for both outputs.
PresentResultSizesMut(r, which) == r.resKeySizes

\* The declared result type a present output is compared with:
\* resultTypes[1] for the key, resultTypes[2] for the value.
PresentResultSizes(r, which) ==
  IF which = "key" THEN r.resKeySizes ELSE r.resValueSizes

\* One "if (!llvm::equal(past sizes, result sizes))" block (lines 424-453):
\* the present value and the operations created for it.
GQAPresent(r, which, new) ==
  LET past == IF which = "key" THEN "pastKey" ELSE "pastValue"
      pastSizes == IF which = "key" THEN r.pastKeySizes ELSE r.pastValueSizes
      res == IF which = "key" THEN "presentKey" ELSE "presentValue"
      list == IF which = "key" THEN "keyList" ELSE "valueList"
  IN IF pastSizes = PresentResultSizes(r, which)
       THEN [value |-> past, ops |-> <<>>]
       ELSE [value |-> res,
             ops |-> << ConstInt("cstConcatDim." \o which, 2),
                        ListOf(list, <<past, new>>),
                        MkOp(res, "torch.aten.cat", <<list, "cstConcatDim." \o which>>,
                             TensorTy(IF which = "key" THEN r.resKeySizes
                                      ELSE r.resValueSizes), 0) >>]

\* Everything created once validation has passed (lines 157-455).
GQAEmit(r) ==
  LET a == r.attrs
      doRotary == AttrOr(a, "do_rotary", 0)
      numHeads == AttrOr(a, "num_heads", 0)
      kvNumHeads == AttrOr(a, "kv_num_heads", 0)
      scale == AttrOr(a, "scale", 0)
      batchSize == r.queryDims[1]
      sequenceLength == r.queryDims[2]
      hiddenSize == r.queryDims[3]
      headSize == hiddenSize \div numHeads
      queryReshapeSizesInt == <<batchSize, numHeads, sequenceLength, headSize>>
      kvReshapeSizesInt == <<batchSize, kvNumHeads, sequenceLength, headSize>>
      qTy == TensorTy(queryReshapeSizesInt)
      kRotary == IF doRotary # 0 THEN "kRotary" ELSE "kInput"
      qRotary == IF doRotary # 0 THEN "qRotary" ELSE "qInput"
      key == GQAPresent(r, "key", kRotary)
      value == GQAPresent(r, "value", "vInput")
  IN [ ops |->
        << ConstInt("cstBatchSize", batchSize),
           ConstInt("cstSequenceLength", sequenceLength),
           ConstInt("cstHiddenSize", hiddenSize),
           ConstInt("cstHeadSize", headSize),
           ConstInt("cstNumHeads", numHeads),
           ConstInt("cstKVNumHeads", kvNumHeads),
           ListOf("queryReshapeSizesList",
                  <<"cstBatchSize", "cstNumHeads", "cstSequenceLength", "cstHeadSize">>),
           MkOp("qInput", "torch.aten.reshape", <<"query", "queryReshapeSizesList">>, qTy, 0),
           ListOf("kvReshapeSizesList",
                  <<"cstBatchSize", "cstKVNumHeads", "cstSequenceLength", "cstHeadSize">>),
           MkOp("kInput", "torch.aten.reshape", <<"key", "kvReshapeSizesList">>,
                TensorTy(kvReshapeSizesInt), 0),
           MkOp("vInput", "torch.aten.reshape", <<"value", "kvReshapeSizesList">>,
                TensorTy(kvReshapeSizesInt), 0),
           ConstNone("cstNone"),
           ConstBool("cstFalse", 0) >>
        \o (IF doRotary # 0 THEN GQARotaryOps(r, qTy) ELSE <<>>) \o
        << ConstBool("cstEnableGQA", 1),
           ConstFloat("cstFloatZero", 0) >>
        \o (IF scale # 0 THEN << ConstFloat("cstScale", scale) >> ELSE <<>>) \o
        << MkOp("attention", "torch.aten.scaled_dot_product_attention",
                << qRotary, kRotary, "vInput", "cstNone", "cstFloatZero", "cstFalse",
                   IF scale # 0 THEN "cstScale" ELSE "cstNone", "cstEnableGQA" >>,
                qTy, 0),
           ListOf("attentionResultSizesList",
                  <<"cstBatchSize", "cstSequenceLength", "cstHiddenSize">>),
           MkOp("attention.reshape", "torch.aten.reshape",
                <<"attention", "attentionResultSizesList">>, TensorTy(r.queryDims), 0) >>
        \o key.ops \o value.ops,
       replaced |-> <<"attention.reshape", key.value, value.value>>,
       sem |-> IF doRotary # 0 THEN GQARotarySem(r) ELSE NoSem ]

GroupQueryAttention(r) ==
  LET v == GQAValidation(r)
      \* the operands are read once every check before line 137 has passed
      readsDone == v.ok \/ v.msg = "Expected query input to have statically known sizes"
      oob == readsDone /\ \E i \in GQAOperandReads(r) : i >= r.nOperands
      res == IF ~v.ok THEN Finish(v, <<>>, NoSem)
             ELSE LET e == GQAEmit(r) IN Success(e.ops, e.replaced, e.sem)
  IN [res EXCEPT !.ub = oob]

-----------------------------------------------------------------------------
(* Operator records the GroupQueryAttention rule is applied to.            *)

\* An attribute dictionary from, per name, <<present, value>>.
MkAttrs(f) == [n \in {m \in DOMAIN f : f[m][1]} |-> f[n][2]]

GQAAttrChoices ==
  [ do_rotary : {<<TRUE, 0>>, <<TRUE, 1>>},
    kv_num_heads : {<<FALSE, 0>>, <<TRUE, 0>>, <<TRUE, 1>>},
    local_window_size : {<<FALSE, 0>>, <<TRUE, -1>>, <<TRUE, 0>>},
    num_heads : {<<FALSE, 0>>, <<TRUE, 0>>, <<TRUE, 2>>},
    smooth_softmax : {<<TRUE, 0>>, <<TRUE, 1>>},
    softcap : {<<TRUE, 0>>, <<TRUE, 1>>} ]

GQAValidAttrs(doRotary, scale) ==
  [ do_rotary |-> doRotary, kv_num_heads |-> 1, local_window_size |-> -1,
    num_heads |-> 2, rotary_interleaved |-> 0, scale |-> scale,
    smooth_softmax |-> 0, softcap |-> 0 ]

\* Sizes of a key / value cache: (batch, kv_num_heads, length, head_size).
CacheShapes == { <<1, 1, 0, 2>>, <<1, 1, 1, 2>>, <<1, 1, 2, 2>> }

\* Records that exercise the checks; shapes and run-time values are fixed.
GQAValidationRecords ==
  { [ nOperands |-> n, bindFail |-> bf, nResults |-> nr, attrs |-> MkAttrs(c),
      queryStatic |-> qs, queryDims |-> <<1, 1, 4>>, totalSequenceLength |-> 1,
      seqlensK |-> <<0>>, pastKeySizes |-> <<1, 1, 0, 2>>, pastValueSizes |-> <<1, 1, 0, 2>>,
      resKeySizes |-> <<1, 1, 1, 2>>, resValueSizes |-> <<1, 1, 1, 2>> ] :
    n \in 6..10, bf \in {"none", "operands", "resultTypes", "attrs"},
    nr \in {2, 3}, c \in GQAAttrChoices, qs \in BOOLEAN }

\* Valid records with rotary embedding, over the run-time lengths.
GQARotaryRecords ==
  UNION { { [ nOperands |-> 9, bindFail |-> "none", nResults |-> 3,
              attrs |-> GQAValidAttrs(1, 0), queryStatic |-> TRUE,
              queryDims |-> <<b, sl, 4>>, totalSequenceLength |-> t, seqlensK |-> k,
              pastKeySizes |-> <<b, 1, 0, 2>>, pastValueSizes |-> <<b, 1, 0, 2>>,
              resKeySizes |-> <<b, 1, sl, 2>>, resValueSizes |-> <<b, 1, sl, 2>> ] :
            sl \in 1..MaxSeq, t \in 1..MaxTotal, k \in [1..b -> 0..MaxK] } :
          b \in 1..MaxBatch }

\* Valid records over the cache shapes.
GQACacheRecords ==
  { [ nOperands |-> IF dr = 1 THEN 9 ELSE n, bindFail |-> "none", nResults |-> 3,
      attrs |-> GQAValidAttrs(dr, sc), queryStatic |-> TRUE,
      queryDims |-> <<1, 1, 4>>, totalSequenceLength |-> 1, seqlensK |-> <<0>>,
      pastKeySizes |-> pk, pastValueSizes |-> pv, resKeySizes |-> rk,
      resValueSizes |-> rv ] :
    dr \in {0, 1}, n \in {7, 9}, sc \in {0, 1}, pk \in CacheShapes, pv \in CacheShapes,
    rk \in CacheShapes, rv \in CacheShapes }

\* Valid records over the hidden size and the number of heads; the
\* quotient hidden_size / num_heads is 2 in all of them.
GQAHeadSizeRecords ==
  { [ nOperands |-> 9, bindFail |-> "none", nResults |-> 3,
      attrs |-> [GQAValidAttrs(dr, 0) EXCEPT !.num_heads = hn[2]], queryStatic |-> TRUE,
      queryDims |-> <<1, 1, hn[1]>>, totalSequenceLength |-> 1, seqlensK |-> <<0>>,
      pastKeySizes |-> <<1, 1, 0, 2>>, pastValueSizes |-> <<1, 1, 0, 2>>,
      resKeySizes |-> <<1, 1, 1, 2>>, resValueSizes |-> <<1, 1, 1, 2>> ] :
    dr \in {0, 1}, hn \in {<<4, 2>>, <<5, 2>>, <<6, 3>>, <<7, 3>>} }

GroupQueryAttentionRecords ==
  GQAValidationRecords \cup GQARotaryRecords \cup GQACacheRecords \cup GQAHeadSizeRecords

-----------------------------------------------------------------------------
(* The rewrite driver applies one registered rule to one operator record.  *)

\* A run that read out of bounds (undefined behaviour) may go on with
\* whatever it read, or be stopped.  A rewrite whose aten.view asks for
\* sizes that do not fit its operand has emitted an ill-formed operation:
\* what it computes is either what the declared result type says, or
\* nothing (the view is rejected when the operations are evaluated).
Behaviours(res) ==
  IF res.ub THEN {res, [res EXCEPT !.outcome = "crash", !.diag = "", !.replaced = <<>>]}
  ELSE IF res.sem.valid /\ ~res.sem.viewFits
    THEN {res, [res EXCEPT !.sem.unclamped = <<>>, !.sem.cond = <<>>,
                           !.sem.positionIdsB = <<>>, !.sem.positionIds = <<>>]}
  ELSE {res}

\* The rule named name ran on record r and behaved as b.
Commit(name, r, b) ==
  /\ rule' = name
  /\ rec' = r
  /\ outcome' = b.outcome
  /\ diag' = b.diag
  /\ created' = b.created
  /\ replaced' = b.replaced
  /\ sem' = b.sem
  /\ ub' = b.ub
  /\ UNCHANGED <<passVars, targetVars, registryVars, quantVars>>

ApplyRotaryEmbedding ==
  /\ outcome = "idle"
  /\ \E r \in RotaryEmbeddingRecords : \E b \in Behaviours(RotaryEmbedding(r)) : Commit("RotaryEmbedding", r, b)

ApplyGroupQueryAttention ==
  /\ outcome = "idle"
  /\ \E r \in GroupQueryAttentionRecords : \E b \in Behaviours(GroupQueryAttention(r)) : Commit("GroupQueryAttention", r, b)

ApplyQLinearAdd ==
  /\ outcome = "idle"
  /\ \E r \in QLinearBinaryRecords : \E b \in Behaviours(QLinearAdd(r)) : Commit("QLinearAdd", r, b)

ApplyQLinearLeakyRelu ==
  /\ outcome = "idle"
  /\ \E r \in QLinearUnaryRecords : \E b \in Behaviours(QLinearLeakyRelu(r)) : Commit("QLinearLeakyRelu", r, b)

ApplyQLinearConcat ==
  /\ outcome = "idle"
  /\ \E r \in QLinearConcatRecords : \E b \in Behaviours(QLinearConcat(r)) : Commit("QLinearConcat", r, b)

ApplyQLinearGlobalAveragePool ==
  /\ outcome = "idle"
  /\ \E r \in GlobalAveragePoolRecords : \E b \in Behaviours(QLinearGlobalAveragePool(r)) : Commit("QLinearGlobalAveragePool", r, b)

ApplyQLinearSigmoid ==
  /\ outcome = "idle"
  /\ \E r \in QLinearUnaryRecords : \E b \in Behaviours(QLinearSigmoid(r)) : Commit("QLinearSigmoid", r, b)

ApplyQLinearAveragePool ==
  /\ outcome = "idle"
  /\ \E r \in QLinearAveragePoolRecords : \E b \in Behaviours(QLinearAveragePool(r)) : Commit("QLinearAveragePool", r, b)

ApplyFusedMatMul ==
  /\ outcome = "idle"
  /\ \E r \in FusedMatMulRecords : \E b \in Behaviours(FusedMatMul(r)) : Commit("FusedMatMul", r, b)

ApplyQLinearMul ==
  /\ outcome = "idle"
  /\ \E r \in QLinearBinaryRecords : \E b \in Behaviours(QLinearMul(r)) : Commit("QLinearMul", r, b)

QuantIdle == quantPc = "idle" /\ quantIn = <<>> /\ dequantized = <<>> /\ requantized = 0

RegistryEmpty == registry = {} /\ node = <<>> /\ selected = "undecided"

TargetIdle == examinedOp = <<>> /\ declaredLegal = "unasked"

PassIdle ==
  /\ pc = "off" /\ variant = "default" /\ func0 = <<>> /\ func = <<>>
  /\ attrs0 = <<>> /\ attrs = <<>> /\ attrsWritten = FALSE /\ passFailed = FALSE
  /\ stepsRun = <<>>

Init ==
  /\ rule = "none" /\ rec = [nOperands |-> 0] /\ outcome = "idle" /\ diag = ""
  /\ created = <<>> /\ replaced = <<>> /\ sem = NoSem /\ ub = FALSE
  /\ PassIdle
  /\ TargetIdle
  /\ RegistryEmpty
  /\ QuantIdle

Next ==
  \/ ApplyRotaryEmbedding
  \/ ApplyGroupQueryAttention
  \/ ApplyQLinearAdd
  \/ ApplyQLinearLeakyRelu
  \/ ApplyQLinearConcat
  \/ ApplyQLinearGlobalAveragePool
  \/ ApplyQLinearSigmoid
  \/ ApplyQLinearAveragePool
  \/ ApplyFusedMatMul
  \/ ApplyQLinearMul

Spec == Init /\ [][Next]_vars

-----------------------------------------------------------------------------
(* The finalizing backend type conversion passes.                          *)
(*                                                                         *)
(* A function is one block: the type of its single block argument (value   *)
(* 0) and its operations in order, the last one the func.return.  An       *)
(* operation is [id, kind, arg, ty]: it defines value id of type ty from   *)
(* its operand, value arg.  Block arguments have target types: the pass    *)
(* runs after the function signature has been converted.                   *)

SourceTypes ==
  {"!torch.vtensor", "!torch.bool", "!torch.int", "!torch.float", "!torch.Generator"}

FloatTypes == {"f16", "f32", "f64"}

TargetTypes == {"tensor", "i1", "i64"} \cup FloatTypes

Types == SourceTypes \cup TargetTypes

FloatWidth(t) ==
  CASE t = "f16" -> 16 [] t = "f32" -> 32 [] t = "f64" -> 64

\* The ten materialization operations handed to setupFinalization.
BridgingKinds ==
  { "ToBuiltinTensor", "FromBuiltinTensor", "FromI1", "ToI1", "FromI64",
    "ToI64", "FromF64", "ToF64", "I64ToGenerator", "GeneratorToI64" }

\* Operand and result type of each bridging operation.
BridgeSignature(kind) ==
  CASE kind = "ToBuiltinTensor"   -> <<"!torch.vtensor", "tensor">>
    [] kind = "FromBuiltinTensor" -> <<"tensor", "!torch.vtensor">>
    [] kind = "FromI1"            -> <<"i1", "!torch.bool">>
    [] kind = "ToI1"              -> <<"!torch.bool", "i1">>
    [] kind = "FromI64"           -> <<"i64", "!torch.int">>
    [] kind = "ToI64"             -> <<"!torch.int", "i64">>
    [] kind = "FromF64"           -> <<"f64", "!torch.float">>
    [] kind = "ToF64"             -> <<"!torch.float", "f64">>
    [] kind = "I64ToGenerator"    -> <<"i64", "!torch.Generator">>
    [] kind = "GeneratorToI64"    -> <<"!torch.Generator", "i64">>

\* The type converter: the torch types go to their builtin counterparts,
\* every other type converts to itself (the identity conversion).
convertType(t) ==
  CASE t = "!torch.vtensor"   -> "tensor"
    [] t = "!torch.bool"      -> "i1"
    [] t = "!torch.int"       -> "i64"
    [] t = "!torch.float"     -> "f64"
    [] t = "!torch.Generator" -> "i64"
    [] OTHER                  -> t

isLegalType(t) == convertType(t) = t

FuncOp(id, kind, arg, ty) == [id |-> id, kind |-> kind, arg |-> arg, ty |-> ty]

OpsOf(f) == {f.ops[i] : i \in DOMAIN f.ops}

DefiningOp(f, v) == CHOOSE o \in OpsOf(f) : o.id = v

TypeOf(f, v) == IF v = 0 THEN f.argTy ELSE DefiningOp(f, v).ty

IsBridging(o) == o.kind \in BridgingKinds

OperandTypesOf(f, o) == {TypeOf(f, o.arg)}

ResultTypes(o) == IF o.kind = "func.return" THEN {} ELSE {o.ty}

\* The operations that may follow the body: well typed, operand dominating.
NextOps(f, id) ==
  LET values == {0} \cup {o.id : o \in OpsOf(f)}
  IN UNION { { FuncOp(id, k, v, BridgeSignature(k)[2]) :
                 k \in {b \in BridgingKinds : BridgeSignature(b)[1] = TypeOf(f, v)} }
             \cup { FuncOp(id, "arith.extf", v, t) :
                      t \in {w \in FloatTypes : TypeOf(f, v) \in FloatTypes
                                                /\ FloatWidth(w) > FloatWidth(TypeOf(f, v))} }
             \cup { FuncOp(id, "arith.truncf", v, t) :
                      t \in {w \in FloatTypes : TypeOf(f, v) \in FloatTypes
                                                /\ FloatWidth(w) < FloatWidth(TypeOf(f, v))} }
             \cup { FuncOp(id, "test.op", v, t) : t \in Types }
             : v \in values }

RECURSIVE Bodies(_, _)
Bodies(argTy, n) ==
  IF n = 0 THEN {[argTy |-> argTy, ops |-> <<>>]}
  ELSE LET shorter == Bodies(argTy, n - 1)
       IN shorter \cup
          UNION { { [f EXCEPT !.ops = Append(@, o)] : o \in NextOps(f, n) }
                  : f \in {g \in shorter : Len(g.ops) = n - 1} }

Functions ==
  UNION { { [f EXCEPT !.ops = Append(@, FuncOp(Len(f.ops) + 1, "func.return", v, "none"))] :
              v \in 0..Len(f.ops) }
          : f \in UNION {Bodies(t, MaxOps) : t \in TargetTypes} }

\* A variant that looks through one bridging operation only.
RemappedMut(f, v) ==
  IF v # 0 /\ IsBridging(DefiningOp(f, v)) THEN DefiningOp(f, v).arg ELSE v

\* FinalizeMaterialization: the bridging operation is replaced with its
\* (already remapped) operand.
RECURSIVE Remapped(_, _)
Remapped(f, v) ==
  IF v # 0 /\ IsBridging(DefiningOp(f, v))
    THEN Remapped(f, DefiningOp(f, v).arg)
    ELSE v

\* A variant that takes every operation for legal.
isLegalOpMut(f, o) == TRUE

\* typeConverter.isLegal(op): operand and result types are all legal.
isLegalOp(f, o) ==
  \A t \in OperandTypesOf(f, o) \cup ResultTypes(o) : isLegalType(t)

\* applyFullConversion: the bridging operations are illegal and have a
\* pattern; any other operation has no pattern and must be legal as it
\* stands.  A failed conversion leaves the function as it was.
applyFullConversion(f) ==
  LET Kept(o) == ~IsBridging(o)
      kept == SelectSeq(f.ops, Kept)
  IN IF \A o \in OpsOf(f) : Kept(o) => isLegalOp(f, o)
       THEN [ok |-> TRUE,
             func |-> [f EXCEPT !.ops =
                         [i \in DOMAIN kept |-> [kept[i] EXCEPT !.arg = Remapped(f, @)]]]]
       ELSE [ok |-> FALSE, func |-> f]

\* A variant that never signals the failure.
signalPassFailureMut(conv) == FALSE

\* if (failed(applyFullConversion(...))) signalPassFailure();
signalPassFailure(conv) == ~conv.ok

\* A variant that does not compare the types.
ExtFTruncFPatternMut(f, truncf) ==
  /\ truncf.kind = "arith.truncf"
  /\ truncf.arg # 0
  /\ DefiningOp(f, truncf.arg).kind = "arith.extf"

\* ExtFTruncFPattern matches a truncf of an extf whose operand has the
\* type of the truncf.
ExtFTruncFPattern(f, truncf) ==
  /\ truncf.kind = "arith.truncf"
  /\ truncf.arg # 0
  /\ DefiningOp(f, truncf.arg).kind = "arith.extf"
  /\ truncf.ty = TypeOf(f, DefiningOp(f, truncf.arg).arg)

\* rewriter.replaceOp(op, v): the uses of op become uses of v, op is erased.
replaceOp(f, op, v) ==
  LET Others(o) == o.id # op.id
      rest == SelectSeq(f.ops, Others)
  IN [f EXCEPT !.ops =
        [i \in DOMAIN rest |->
           IF rest[i].arg = op.id THEN [rest[i] EXCEPT !.arg = v] ELSE rest[i]]]

\* Operations without uses and without side effects.  An unregistered
\* operation and the terminator are never dead.
isOpTriviallyDead(f, o) ==
  /\ o.kind \in BridgingKinds \cup {"arith.extf", "arith.truncf"}
  /\ \A u \in OpsOf(f) : u.arg # o.id

\* applyPatternsGreedily with the one pattern: to a fixpoint it applies the
\* pattern and erases trivially dead operations.
RECURSIVE applyPatternsGreedily(_)
applyPatternsGreedily(f) ==
  LET matched == {o \in OpsOf(f) : ExtFTruncFPattern(f, o)}
      dead == {o \in OpsOf(f) : isOpTriviallyDead(f, o)}
  IN IF matched # {}
       THEN LET truncf == CHOOSE o \in matched : \A p \in matched : o.id <= p.id
            IN applyPatternsGreedily(
                 replaceOp(f, truncf, DefiningOp(f, truncf.arg).arg))
     ELSE IF dead # {}
       THEN LET o == CHOOSE d \in dead : \A p \in dead : d.id >= p.id
            IN applyPatternsGreedily(replaceOp(f, o, o.arg))
     ELSE f

\* A dialect attribute name, split at its dots: "torch.debug_module_name"
\* is <<"torch", "debug_module_name">>.
AttrNames ==
  { <<"torch", "debug_module_name">>, <<"torch_c", "note">>,
    <<"llvm", "emit_c_interface">> }

\* A variant that takes every name starting with "torch" for a match.
StartsWithTorchDotMut(name) == Len(name) >= 2 /\ name[1] \in {"torch", "torch_c"}

\* name.starts_with("torch."): the first segment is exactly "torch" and a
\* dot follows it.
StartsWithTorchDot(name) == Len(name) >= 2 /\ name[1] = "torch"

AttrLists ==
  {<<>>} \cup { <<a>> : a \in AttrNames }
         \cup { p \in {<<a, b>> : a \in AttrNames, b \in AttrNames} : p[1] # p[2] }

stripTorchAttrs(as) ==
  LET Other(a) == ~StartsWithTorchDot(a)
      modified == \E i \in DOMAIN as : StartsWithTorchDot(as[i])
      newAttrs == SelectSeq(as, Other)
  IN [modified |-> modified, attrs |-> IF modified THEN newAttrs ELSE as]

\* A variant that returns as soon as the conversion has failed.
PassOutcomeMut(v, f, as) ==
  LET conv == applyFullConversion(f)
      stripped == stripTorchAttrs(as)
  IN IF signalPassFailure(conv)
       THEN [ failed |-> TRUE, func |-> f, attrs |-> as, written |-> FALSE,
              steps |-> <<"applyFullConversion">> ]
       ELSE [ failed |-> FALSE,
              func |-> IF v = "default" THEN applyPatternsGreedily(conv.func) ELSE conv.func,
              attrs |-> stripped.attrs,
              written |-> stripped.modified,
              steps |-> IF v = "default"
                          THEN <<"applyFullConversion", "applyPatternsGreedily",
                                 "stripTorchAttrs">>
                          ELSE <<"applyFullConversion", "stripTorchAttrs">> ]

\* runOnOperation of both finalizing passes; only the default one runs the
\* ExtF/TruncF cleanup.  A failed conversion signals the failure and the
\* pass goes on.
PassOutcome(v, f, as) ==
  LET conv == applyFullConversion(f)
      stripped == stripTorchAttrs(as)
  IN [ failed |-> signalPassFailure(conv),
       func |-> IF v = "default" THEN applyPatternsGreedily(conv.func) ELSE conv.func,
       attrs |-> stripped.attrs,
       written |-> stripped.modified,
       steps |-> IF v = "default"
                   THEN <<"applyFullConversion", "applyPatternsGreedily", "stripTorchAttrs">>
                   ELSE <<"applyFullConversion", "stripTorchAttrs">> ]

runOnOperation(v, f, as) ==
  LET out == PassOutcome(v, f, as)
  IN /\ pc' = "done"
     /\ variant' = v
     /\ func0' = f
     /\ attrs0' = as
     /\ passFailed' = out.failed
     /\ func' = out.func
     /\ attrs' = out.attrs
     /\ attrsWritten' = out.written
     /\ stepsRun' = out.steps
     /\ UNCHANGED <<ruleVars, targetVars, registryVars, quantVars>>

FinalizingBackendTypeConversionPass ==
  /\ pc = "off"
  /\ \E f \in Functions : \E as \in AttrLists : runOnOperation("default", f, as)

FinalizingBackendTypeConversionForStablehloPass ==
  /\ pc = "off"
  /\ \E f \in Functions : \E as \in AttrLists : runOnOperation("stablehlo", f, as)

PassNext ==
  \/ FinalizingBackendTypeConversionPass
  \/ FinalizingBackendTypeConversionForStablehloPass

PassSpec == Init /\ [][PassNext]_vars

-----------------------------------------------------------------------------
(* The conversion target of FuncBackendTypeConversionPass: which           *)
(* operations it declares legal.  An operation is described by its name,   *)
(* its operand and result types and, for the callback on unknown           *)
(* operations, by what isNotBranchOpInterfaceOrReturnLikeOp looks at.      *)

TypeLists == {<<>>} \cup {<<t>> : t \in Types} \cup {<<t, u>> : t \in {"tensor", "!torch.vtensor"}, u \in Types}

AllLegal(types) == \A i \in DOMAIN types : isLegalType(types[i])

\* func.func: signature and the block arguments of its body.
FuncOpDescriptors ==
  { [name |-> "func.func", inputs |-> <<a>>, results |-> r, bodyArgs |-> <<b>>] :
      a \in Types, r \in {<<>>} \cup {<<t>> : t \in Types}, b \in Types }

CallOpDescriptors ==
  { [name |-> "func.call", operands |-> o, results |-> r] :
      o \in TypeLists, r \in {<<>>} \cup {<<t>> : t \in Types} }

BridgingOpDescriptors ==
  { [name |-> k, operands |-> <<BridgeSignature(k)[1]>>, results |-> <<BridgeSignature(k)[2]>>] :
      k \in BridgingKinds }

\* Operations the target has no entry for.  iface: the operation is a
\* BranchOpInterface ("branch"), a func.return ("return") or neither; a
\* func.return is a terminator directly inside a function.
UnknownOpDescriptors ==
  { d \in [ name : {"test.op"}, operands : TypeLists,
            results : {<<>>} \cup {<<t>> : t \in Types},
            terminator : BOOLEAN, parentIsFunc : BOOLEAN,
            iface : {"none", "branch", "return"} ] :
      /\ d.iface # "none" => (d.terminator /\ d.results = <<>>)
      /\ d.iface = "return" => d.parentIsFunc }

\* isNotBranchOpInterfaceOrReturnLikeOp: not a terminator, or a terminator
\* of a nested region.
isNotBranchOpInterfaceOrReturnLikeOp(op) ==
  ~op.terminator \/ ~op.parentIsFunc

\* isLegalForBranchOpInterfaceTypeConversionPattern: a branch whose
\* successor operands have legal types.
isLegalForBranchOpInterfaceTypeConversionPattern(op) ==
  op.iface = "branch" /\ AllLegal(op.operands)

\* isLegalForReturnOpTypeConversionPattern: a func.return that is legal
\* under the type converter.
isLegalForReturnOpTypeConversionPattern(op) ==
  op.iface = "return" /\ AllLegal(op.operands) /\ AllLegal(op.results)

\* A variant that asks the type converter about every unknown operation.
UnknownOpLegalMut(op) == AllLegal(op.operands) /\ AllLegal(op.results)

\* target.markUnknownOpDynamicallyLegal of
\* populateFuncBackendTypeConversionPatterns.
UnknownOpLegal(op) ==
  \/ isNotBranchOpInterfaceOrReturnLikeOp(op)
  \/ isLegalForBranchOpInterfaceTypeConversionPattern(op)
  \/ isLegalForReturnOpTypeConversionPattern(op)

\* target.addDynamicallyLegalOp<func::FuncOp>.
FuncOpLegal(op) ==
  /\ AllLegal(op.inputs) /\ AllLegal(op.results)
  /\ AllLegal(op.bodyArgs)

\* target.addDynamicallyLegalOp<func::CallOp>.
CallOpLegal(op) == AllLegal(op.operands) /\ AllLegal(op.results)

Declare(op, legal) ==
  /\ examinedOp' = op
  /\ declaredLegal' = IF legal THEN "legal" ELSE "illegal"
  /\ UNCHANGED <<ruleVars, passVars, registryVars, quantVars>>

LegalityOfFuncOp ==
  /\ declaredLegal = "unasked"
  /\ \E op \in FuncOpDescriptors : Declare(op, FuncOpLegal(op))

LegalityOfCallOp ==
  /\ declaredLegal = "unasked"
  /\ \E op \in CallOpDescriptors : Declare(op, CallOpLegal(op))

\* target.addLegalOp<ModuleOp>().
LegalityOfModuleOp ==
  /\ declaredLegal = "unasked"
  /\ Declare([name |-> "builtin.module"], TRUE)

\* setupBackendTypeConversion marks the bridging operations legal.
LegalityOfBridgingOp ==
  /\ declaredLegal = "unasked"
  /\ \E op \in BridgingOpDescriptors : Declare(op, TRUE)

LegalityOfUnknownOp ==
  /\ declaredLegal = "unasked"
  /\ \E op \in UnknownOpDescriptors : Declare(op, UnknownOpLegal(op))

TargetNext ==
  \/ LegalityOfFuncOp
  \/ LegalityOfCallOp
  \/ LegalityOfModuleOp
  \/ LegalityOfBridgingOp
  \/ LegalityOfUnknownOp

TargetSpec == Init /\ [][TargetNext]_vars

-----------------------------------------------------------------------------
(* The operator pattern registry: onOp(name, sinceVersion, rule) and the   *)
(* dispatcher that picks the rule for a node.  A rule is identified by     *)
(* its (name, sinceVersion) pair.                                          *)

RuleNames == {"FusedMatMul", "Foo"}

RuleVersions == 1..MaxVersion

Nodes == { <<n, v>> : n \in RuleNames \cup {"Unregistered"}, v \in 0..(MaxVersion + 1) }

\* The rules a node may be dispatched to: same name, sinceVersion not above
\* the node's version.
Candidates(reg, nd) == { r \in reg : r[1] = nd[1] /\ r[2] <= nd[2] }

\* A variant that takes the oldest candidate.
SelectRuleMut(reg, nd) ==
  IF Candidates(reg, nd) = {} THEN "none"
  ELSE CHOOSE r \in Candidates(reg, nd) : \A q \in Candidates(reg, nd) : q[2] >= r[2]

\* The dispatcher: the candidate with the highest sinceVersion, or none.
SelectRule(reg, nd) ==
  IF Candidates(reg, nd) = {} THEN "none"
  ELSE CHOOSE r \in Candidates(reg, nd) : \A q \in Candidates(reg, nd) : q[2] <= r[2]

\* patterns.onOp(name, sinceVersion, rule)
onOp ==
  /\ selected = "undecided"
  /\ \E n \in RuleNames : \E v \in RuleVersions :
       /\ <<n, v>> \notin registry
       /\ registry' = registry \cup {<<n, v>>}
  /\ UNCHANGED <<node, selected, ruleVars, passVars, targetVars, quantVars>>

Dispatch ==
  /\ selected = "undecided"
  /\ \E nd \in Nodes :
       /\ node' = nd
       /\ selected' = SelectRule(registry, nd)
  /\ UNCHANGED <<registry, ruleVars, passVars, targetVars, quantVars>>

RegistryNext ==
  \/ onOp
  \/ Dispatch

RegistrySpec == Init /\ [][RegistryNext]_vars

-----------------------------------------------------------------------------
(* The arithmetic of the quantized rules: dequantize to f32, quantize      *)
(* back.  An f32 value is an integer n times 2^k, or an infinity; n is     *)
(* always exactly representable with the 24-bit significand of f32.        *)
(* Scales are (signed) powers of two, for which multiplication and         *)
(* division are exact whenever the result is finite.                       *)

F32SignificandBits == 24
F32ExponentLimit == 128

Abs(n) == IF n < 0 THEN -n ELSE n

Sign(n) == IF n < 0 THEN -1 ELSE IF n = 0 THEN 0 ELSE 1

RECURSIVE BitLen(_)
BitLen(n) == IF n = 0 THEN 0 ELSE 1 + BitLen(n \div 2)

\* n / 2^shift rounded to the nearest integer, ties to even (n >= 0).
RoundShift(n, shift) ==
  IF shift <= 0 THEN n
  ELSE IF shift > 31 THEN 0
  ELSE LET q == n \div 2^shift
           r == n % 2^shift
           half == 2^(shift - 1)
       IN IF r > half \/ (r = half /\ q % 2 = 1) THEN q + 1 ELSE q

\* sitofp: the integer rounded to 24 significant bits.
ToF32(n) ==
  LET shift == BitLen(Abs(n)) - F32SignificandBits
  IN IF shift <= 0 THEN n ELSE Sign(n) * RoundShift(Abs(n), shift) * 2^shift

QuantDtypes == {"quint8", "qint8", "qint32"}

QMin(dtype) ==
  CASE dtype = "quint8" -> 0 [] dtype = "qint8" -> -128 [] dtype = "qint32" -> (0 - 2^30) * 2

\* A variant with the signed 8-bit maximum for every dtype.
QMaxMut(dtype) == 127

QMax(dtype) ==
  CASE dtype = "quint8" -> 255 [] dtype = "qint8" -> 127 [] dtype = "qint32" -> (2^30 - 1) * 2 + 1

Finite(n, k) == [inf |-> 0, n |-> n, k |-> k]

Infinite(sign) == [inf |-> sign, n |-> 0, k |-> 0]

\* The f32 product or quotient of an integer-valued f32 n and 2^k.
Scaled(n, k) ==
  IF n = 0 THEN Finite(0, 0)
  ELSE IF BitLen(Abs(n)) + k > F32ExponentLimit THEN Infinite(Sign(n))
  ELSE Finite(n, k)

\* dequantize(raw, s, z) = (raw - z) * s in f32.
Dequantize(raw, scale, zp) ==
  LET diff == ToF32(ToF32(raw) - ToF32(zp))
  IN Scaled(diff * scale.sign, scale.k)

\* clamp to the range of the dtype, then convert to integer.
ClampTo(dtype, v) ==
  IF v.inf # 0 THEN (IF v.inf > 0 THEN QMax(dtype) ELSE QMin(dtype))
  ELSE IF v.n < QMin(dtype) THEN QMin(dtype)
  ELSE IF v.n > QMax(dtype) THEN QMax(dtype)
  ELSE v.n

\* quantize(v, s, z, dtype) = clamp(round(v / s) + z) in f32.
Quantize(v, scale, zp, dtype) ==
  LET quotient == IF v.inf # 0 THEN Infinite(v.inf * scale.sign)
                  ELSE Scaled(v.n * scale.sign, v.k - scale.k)
      rounded == IF quotient.inf # 0 THEN quotient
                 ELSE IF quotient.k < 0
                   THEN Finite(Sign(quotient.n) * RoundShift(Abs(quotient.n), -quotient.k), 0)
                 ELSE IF BitLen(Abs(quotient.n)) + quotient.k > 31
                   THEN Infinite(Sign(quotient.n))
                 ELSE Finite(quotient.n * 2^quotient.k, 0)
      shifted == IF rounded.inf # 0 THEN rounded
                 ELSE Finite(ToF32(rounded.n + ToF32(zp)), 0)
  IN ClampTo(dtype, shifted)

ScaleExponents == {-149, -126, -3, -1, 0, 1, 7, 100, 104, 120, 127}

Scales == [sign : {-1, 1}, k : ScaleExponents]

RawSamples(dtype) ==
  IF dtype = "qint32"
    THEN { -(2^30), -(2^24) - 1, -(2^24), -1, 0, 1, 2^24 - 1, 2^24, 2^24 + 1,
           2^24 + 2, 2^24 + 3, 2^25 + 2, 2^30 }
    ELSE QMin(dtype)..QMax(dtype)

ZeroPointSamples(dtype) ==
  IF dtype = "qint32" THEN {-3, 0, 1, 2^24}
  ELSE {QMin(dtype), QMin(dtype) + 128, QMax(dtype)}

QuantInputs ==
  UNION { [dtype : {d}, raw : RawSamples(d), scale : Scales, zp : ZeroPointSamples(d)] :
          d \in QuantDtypes }

DequantizeStep ==
  /\ quantPc = "idle"
  /\ quantPc' = "dequantized"
  /\ \E q \in QuantInputs :
       /\ quantIn' = q
       /\ dequantized' = Dequantize(q.raw, q.scale, q.zp)
  /\ UNCHANGED <<requantized, ruleVars, passVars, targetVars, registryVars>>

QuantizeStep ==
  /\ quantPc = "dequantized"
  /\ quantPc' = "quantized"
  /\ requantized' = Quantize(dequantized, quantIn.scale, quantIn.zp, quantIn.dtype)
  /\ UNCHANGED <<quantIn, dequantized, ruleVars, passVars, targetVars, registryVars>>

QuantNext ==
  \/ DequantizeStep
  \/ QuantizeStep

QuantSpec == Init /\ [][QuantNext]_vars

-----------------------------------------------------------------------------
(* Claims about the rewrite rules.                                         *)

\* The zero-based prompt indices 0..sequenceLength-1 in every batch row.
PromptIndices(batchSize, sequenceLength) ==
  [b \in 1..batchSize |-> [j \in 1..sequenceLength |-> j - 1]]

\* A GroupQueryAttention record was rewritten with rotary embedding.
GQARotaryDone ==
  rule = "GroupQueryAttention" /\ outcome = "success" /\ sem.valid

\* C1: in GroupQueryAttention with do_rotary set, whenever the continuation
\* predicate (sequence_length > 1 and sequence_length # total_sequence_length)
\* is false, the position ids passed to both rotary embeddings are the
\* zero-based prompt indices 0..sequence_length-1 in every batch row.
C1_FreshPromptIndices ==
  (GQARotaryDone /\ ~sem.isSubsequentPrompt) =>
    /\ OpOf(created, "qRotary").args[2] = "positionIds"
    /\ OpOf(created, "kRotary").args[2] = "positionIds"
    /\ sem.positionIds = PromptIndices(rec.queryDims[1], rec.queryDims[2])

\* What the code does in C1's case: the position ids are all zero.
C1_CodeZeros ==
  (GQARotaryDone /\ ~sem.isSubsequentPrompt) =>
    \A b \in DOMAIN sem.positionIds : \A j \in DOMAIN sem.positionIds[b] :
      sem.positionIds[b][j] = 0

\* The present output named by which is the past operand itself, nothing created.
PresentIsPast(which, past, res, position) ==
  /\ replaced[position] = past
  /\ ~HasRes(created, res)
  /\ \A o \in OpsNamed(created, "torch.prim.ListConstruct") :
       o.args = <<>> \/ o.args[1] # past

\* The present output is cat([past, new], dim = 2) of the declared type.
PresentIsCat(past, new, res, position, sizes) ==
  /\ replaced[position] = res
  /\ HasRes(created, res)
  /\ LET cat == OpOf(created, res)
     IN /\ cat.op = "torch.aten.cat"
        /\ cat.ty = TensorTy(sizes)
        /\ HasRes(created, cat.args[1]) /\ HasRes(created, cat.args[2])
        /\ OpOf(created, cat.args[1]).op = "torch.prim.ListConstruct"
        /\ OpOf(created, cat.args[1]).args = <<past, new>>
        /\ OpOf(created, cat.args[2]).op = "torch.constant.int"
        /\ OpOf(created, cat.args[2]).val = 2

\* C2: in GroupQueryAttention, independently for key and value: when the
\* sizes of the past operand equal the sizes of the corresponding declared
\* result type, the present output is the past operand and no concatenation
\* is emitted for it; otherwise it is cat([past, new], axis 2) with the
\* declared result type (new: the rotary-embedded or reshaped key, the
\* reshaped value).
C2_PresentKeyValue ==
  (rule = "GroupQueryAttention" /\ outcome = "success") =>
    LET newKey == IF AttrOr(rec.attrs, "do_rotary", 0) # 0 THEN "kRotary" ELSE "kInput"
        keySame == rec.pastKeySizes = rec.resKeySizes
        valueSame == rec.pastValueSizes = rec.resValueSizes
    IN /\ IF keySame THEN PresentIsPast("key", "pastKey", "presentKey", 2)
          ELSE PresentIsCat("pastKey", newKey, "presentKey", 2, rec.resKeySizes)
       /\ IF valueSame THEN PresentIsPast("value", "pastValue", "presentValue", 3)
          ELSE PresentIsCat("pastValue", "vInput", "presentValue", 3, rec.resValueSizes)
       /\ CountOps(created, "torch.aten.cat") =
            (IF keySame THEN 0 ELSE 1) + (IF valueSame THEN 0 ELSE 1)

\* C2's case: the key cache is returned as it is while the value is
\* concatenated.
C2_Witness ==
  /\ rule = "GroupQueryAttention" /\ outcome = "success"
  /\ rec.pastKeySizes = rec.resKeySizes /\ rec.pastValueSizes # rec.resValueSizes
  /\ replaced[2] = "pastKey" /\ replaced[3] = "presentValue"

FixedArityRules ==
  { "QLinearAdd", "QLinearMul", "QLinearLeakyRelu", "QLinearSigmoid",
    "QLinearAveragePool", "QLinearGlobalAveragePool", "GroupQueryAttention" }

SupportedArity(name) ==
  IF name \in {"QLinearAdd", "QLinearMul"} THEN {8}
  ELSE IF name = "GroupQueryAttention" THEN {7, 9} ELSE {5}

\* C3: for every fixed-arity rule, a record whose operand count is outside
\* the supported set makes the rule return failure with zero operations
\* created and the original operation not replaced.
C3_ArityFailure ==
  (rule \in FixedArityRules /\ rec.nOperands \notin SupportedArity(rule)) =>
    (outcome = "failure" /\ created = <<>> /\ replaced = <<>>)

\* C3's case: a QLinearAdd whose only flaw is its ninth operand.
C3_Witness ==
  /\ rule = "QLinearAdd" /\ rec.nOperands = 9
  /\ rec.operandsBind /\ rec.resultBinds
  /\ \A g \in DOMAIN rec.perTensor : rec.perTensor[g]
  /\ \A g \in DOMAIN rec.sized : rec.sized[g]
  /\ outcome = "failure" /\ diag = "Unimplemented: expected 8 input operands"

\* C4: on every path on which a rule returns failure it has created zero
\* operations before returning.
C4_AllOrNothing ==
  outcome = "failure" => created = <<>>

TransBatchMsg ==
  "Unimplemented: support not present for transBatchA and transBatchB attribute"

\* t is s with its last two axes swapped.
LastTwoSwapped(s, t) ==
  /\ Len(s) >= 2 /\ Len(t) = Len(s)
  /\ t[Len(s)] = s[Len(s) - 1] /\ t[Len(s) - 1] = s[Len(s)]
  /\ \A i \in 1..(Len(s) - 2) : t[i] = s[i]

\* The matmul operand on one side: the transpose of the original operand
\* over its last two axes if trans is non-zero, else the operand itself.
MatMulOperandIs(arg, original, transposed, trans, ty) ==
  IF trans # 0
    THEN /\ arg = transposed
         /\ HasRes(created, transposed)
         /\ LET t == OpOf(created, transposed)
            IN /\ t.op = "torch.aten.transpose.int"
               /\ t.args[1] = original
               /\ OpOf(created, t.args[2]).val = Len(ty.sizes) - 2
               /\ OpOf(created, t.args[3]).val = Len(ty.sizes) - 1
               /\ LastTwoSwapped(ty.sizes, t.ty.sizes)
    ELSE arg = original /\ ~HasRes(created, transposed)

C7_EveryDeclineHasReason ==
  outcome = "failure" => diag # ""

-----------------------------------------------------------------------------
(* Claims about the finalizing passes.                                     *)

TheTenBridgingKinds ==
  { "ToBuiltinTensor", "FromBuiltinTensor", "FromI1", "ToI1", "FromI64",
    "ToI64", "FromF64", "ToF64", "I64ToGenerator", "GeneratorToI64" }

\* The function holds no bridging operation and only target-typed values.
FullyLegal(f) ==
  \A o \in OpsOf(f) :
    /\ o.kind \notin TheTenBridgingKinds
    /\ TypeOf(f, o.arg) \in TargetTypes
    /\ o.kind # "func.return" => o.ty \in TargetTypes

\* as without its torch.-prefixed names, the others in their order.
AttrsStripped(before, after) ==
  /\ \A n \in AttrNames :
       (\E i \in DOMAIN after : after[i] = n) <=>
         (n[1] # "torch" /\ \E i \in DOMAIN before : before[i] = n)
  /\ \A i, j \in DOMAIN after :
       i < j => \E k, l \in DOMAIN before :
                  k < l /\ before[k] = after[i] /\ before[l] = after[j]
  /\ Len(after) <= Len(before)

\* g is f after the ExtF/TruncF cleanup and nothing else: no operation
\* added; only extf / truncf operations removed, none of them used any
\* more; a use is re-pointed only from a removed truncf to a value of the
\* same type; a function without extf and truncf is left as it is.
CleanupOnly(f, g) ==
  /\ g.argTy = f.argTy
  /\ \A i \in DOMAIN g.ops : \E o \in OpsOf(f) :
       /\ o.id = g.ops[i].id /\ o.kind = g.ops[i].kind /\ o.ty = g.ops[i].ty
       /\ TypeOf(g, g.ops[i].arg) = TypeOf(f, o.arg)
       /\ g.ops[i].arg # o.arg =>
            /\ DefiningOp(f, o.arg).kind = "arith.truncf"
            /\ \A u \in OpsOf(g) : u.id # o.arg
  /\ \A i, j \in DOMAIN g.ops : i < j => g.ops[i].id < g.ops[j].id
  /\ \A o \in OpsOf(f) :
       (\A u \in OpsOf(g) : u.id # o.id) =>
         /\ o.kind \in {"arith.extf", "arith.truncf"}
         /\ \A u \in OpsOf(g) : u.arg # o.id
  /\ (\A o \in OpsOf(f) : o.kind \notin {"arith.extf", "arith.truncf"}) => g = f

\* A pass has run on a function without bridging operations whose
\* operations are all legally typed.
C8_Case == pc = "done" /\ FullyLegal(func0)

Stranded(f, o) ==
  /\ o.kind \in TheTenBridgingKinds
  /\ o.arg # 0
  /\ DefiningOp(f, o.arg).kind \notin TheTenBridgingKinds
  /\ TypeOf(f, o.arg) \in SourceTypes

\* C9: on a function with a stranded bridging operation, whose operand
\* still carries a source type, the finalizing pass signals failure; the
\* conversion is rolled back, so the operation is not removed from a
\* function reported as finalized.
C9_StrandedFails ==
  (pc = "done" /\ \E o \in OpsOf(func0) : Stranded(func0, o)) =>
    /\ passFailed
    /\ variant = "stablehlo" => func = func0
    /\ \A o \in OpsOf(func0) :
         (Stranded(func0, o) /\ \E u \in OpsOf(func0) : u.kind = "func.return" /\ u.arg = o.id)
           => o \in OpsOf(func)

\* C9's case: a test.op yields a !torch.vtensor, the one bridging operation
\* converts it and is returned.
C9_Witness ==
  /\ pc = "done" /\ variant = "default" /\ passFailed
  /\ func0.ops = << FuncOp(1, "test.op", 0, "!torch.vtensor"),
                    FuncOp(2, "ToBuiltinTensor", 1, "tensor"),
                    FuncOp(3, "func.return", 2, "none") >>
  /\ func = func0

\* C10: after a finalizing pass that reports success the function holds no
\* bridging operation of any of the ten kinds and every remaining operation
\* has only target-legal operand and result types.
C10_SuccessIsFullyLegal ==
  (pc = "done" /\ ~passFailed) => FullyLegal(func)

\* C10's case: a from/to pair of bridging operations is eliminated and the
\* return uses the block argument.
C10_Witness ==
  /\ pc = "done" /\ ~passFailed
  /\ func0.ops = << FuncOp(1, "I64ToGenerator", 0, "!torch.Generator"),
                    FuncOp(2, "GeneratorToI64", 1, "i64"),
                    FuncOp(3, "func.return", 2, "none") >>
  /\ func.ops = << FuncOp(3, "func.return", 0, "none") >>

-----------------------------------------------------------------------------
(* Claims about the partial conversion pass.                               *)

HasSourceType(types) == \E i \in DOMAIN types : types[i] \in SourceTypes

\* An ordinary operation: no function, call, branch or return and no
\* bridging operation, and not a terminator.
OrdinaryExamined ==
  /\ declaredLegal # "unasked"
  /\ examinedOp.name = "test.op"
  /\ examinedOp.iface = "none" /\ ~examinedOp.terminator

\* C11 as claimed: in FuncBackendTypeConversionPass an operation with
\* operands and results is declared legal if and only if all its operand
\* and result types are legal under the type converter or it is a bridging
\* operation; an ordinary operation that still has a source-typed operand
\* or result is not legal.
C11_Original ==
  (declaredLegal # "unasked" /\ examinedOp.name \notin {"func.func", "builtin.module"}) =>
    /\ (declaredLegal = "legal") <=>
         \/ examinedOp.name \in TheTenBridgingKinds
         \/ ~HasSourceType(examinedOp.operands) /\ ~HasSourceType(examinedOp.results)
    /\ (OrdinaryExamined /\ (HasSourceType(examinedOp.operands) \/ HasSourceType(examinedOp.results)))
         => declaredLegal = "illegal"

\* C11 as amended: the partial conversion pass declares legal: the module
\* and every bridging operation; a function iff its signature and the
\* block arguments of its body have only legal types; a call iff its
\* operand and result types are legal; a terminator directly inside a
\* function iff it is a branch or a func.return and its operand types are
\* legal; every other operation whatever its types, so an ordinary
\* operation with a source-typed operand or result is legal in this pass.
C11_PartialLegality ==
  declaredLegal # "unasked" =>
    LET op == examinedOp
    IN CASE op.name = "builtin.module" -> declaredLegal = "legal"
         [] op.name \in TheTenBridgingKinds -> declaredLegal = "legal"
         [] op.name = "func.func" ->
              (declaredLegal = "legal") <=> ~HasSourceType(op.inputs \o op.results \o op.bodyArgs)
         [] op.name = "func.call" ->
              (declaredLegal = "legal") <=> ~HasSourceType(op.operands \o op.results)
         [] OTHER ->
              IF op.terminator /\ op.parentIsFunc
                THEN (declaredLegal = "legal") <=>
                       (op.iface \in {"branch", "return"} /\ ~HasSourceType(op.operands))
                ELSE declaredLegal = "legal"

\* C11's case: an ordinary operation from a source-typed operand to a
\* source-typed result is declared legal.
C11_Witness ==
  /\ OrdinaryExamined
  /\ examinedOp.operands = <<"!torch.vtensor">> /\ examinedOp.results = <<"!torch.int">>
  /\ declaredLegal = "legal"

-----------------------------------------------------------------------------
(* Claims relating the two finalizing passes.                              *)

\* C12: the default and the StableHLO finalizing pass differ only in the
\* type-conversion setup: on a function on which both setups agree on type
\* legality, the pass that ran and the other one produce the same function
\* and the same success / failure outcome.
C12_SameResult ==
  pc = "done" =>
    \A v \in {"default", "stablehlo"} :
      LET other == PassOutcome(v, func0, attrs0)
      IN /\ other.failed = passFailed
         /\ other.func = func
         /\ other.attrs = attrs

\* Where the two passes do agree: the outcome and the attributes, and the
\* function whenever it holds no arith.extf or arith.truncf and no
\* bridging operation is left by a failed conversion.
C12_AgreeApartFromCleanup ==
  pc = "done" =>
    \A v \in {"default", "stablehlo"} :
      LET other == PassOutcome(v, func0, attrs0)
      IN /\ other.failed = passFailed
         /\ other.attrs = attrs
         /\ (~passFailed /\ \A o \in OpsOf(func0) : o.kind \notin {"arith.extf", "arith.truncf"})
              => other.func = func

-----------------------------------------------------------------------------
(* Claims about the registry.                                              *)

\* C13: for any set of registered (name, minVersion) rules and any node
\* with a name and a declared version v, the dispatcher selects the rule of
\* that name with the highest minVersion <= v, and none when no registered
\* rule of that name has minVersion <= v.
C13_HighestVersionNotAbove ==
  selected # "undecided" =>
    IF \E r \in registry : r[1] = node[1] /\ r[2] <= node[2]
      THEN /\ selected \in registry
           /\ selected[1] = node[1]
           /\ selected[2] <= node[2]
           /\ \A r \in registry :
                (r[1] = node[1] /\ r[2] <= node[2]) => r[2] <= selected[2]
      ELSE selected = "none"

\* C13's case: rules for Foo at versions 1 and 3 and for FusedMatMul at 2;
\* a Foo node declared at version 2 gets the version-1 rule.
C13_Witness ==
  /\ registry = {<<"Foo", 1>>, <<"Foo", 3>>, <<"FusedMatMul", 2>>}
  /\ node = <<"Foo", 2>>
  /\ selected = <<"Foo", 1>>

-----------------------------------------------------------------------------
(* Claims about the quantization arithmetic.                               *)

C14_Exact ==
  /\ ToF32(quantIn.raw) = quantIn.raw
  /\ ToF32(quantIn.zp) = quantIn.zp
  /\ ToF32(quantIn.raw - quantIn.zp) = quantIn.raw - quantIn.zp
  /\ BitLen(Abs(quantIn.raw - quantIn.zp)) + quantIn.scale.k <= 128

-----------------------------------------------------------------------------
(* Claims about the checks of the GroupQueryAttention rule.                *)

C15_Attr(name, default) ==
  IF name \in DOMAIN rec.attrs THEN rec.attrs[name] ELSE default

\* Some attribute, the result count or the query is outside the
\* implemented subset.
C15_Unsupported ==
  \/ C15_Attr("local_window_size", -1) # -1
  \/ C15_Attr("smooth_softmax", 0) # 0
  \/ C15_Attr("softcap", 0) # 0
  \/ C15_Attr("kv_num_heads", 0) = 0
  \/ C15_Attr("num_heads", 0) = 0
  \/ rec.nResults # 3
  \/ ~rec.queryStatic

C15_Messages ==
  { "expected 3 result types",
    "kv_num_heads is a required attribute and should be non-zero",
    "Unimplemented: local_window_size attribute is not supported, hence it should have default value equal to -1",
    "num_heads is a required attribute and should be non-zero",
    "Unimplemented: smooth_softmax attribute is not supported, hence it should have default value equal to 0",
    "Unimplemented: softcap attribute is not supported, hence it should have default value equal to 0.0",
    "Expected query input to have statically known sizes" }

\* C15: GroupQueryAttention declines, having created no operation,
\* whenever local_window_size # -1, smooth_softmax # 0, softcap # 0,
\* kv_num_heads = 0 or num_heads = 0 (given or defaulted), the result count
\* is not 3, or the query sizes are not all static; a record with all of
\* these at their supported values is never declined by these checks.
C15_DeclinesUnsupported ==
  rule = "GroupQueryAttention" =>
    /\ C15_Unsupported =>
         (outcome = "failure" /\ created = <<>> /\ replaced = <<>>)
    /\ ~C15_Unsupported => diag \notin C15_Messages
    /\ (~C15_Unsupported /\ rec.bindFail = "none"
          /\ (rec.nOperands = 9 \/ (C15_Attr("do_rotary", 0) = 0 /\ rec.nOperands = 7)))
         => outcome # "failure"

\* C15's case: a record whose only flaw is an absent kv_num_heads, which
\* takes the default 0 and is declined with nothing created.
C15_Witness ==
  /\ rule = "GroupQueryAttention" /\ rec.bindFail = "none" /\ rec.nOperands = 9
  /\ rec.nResults = 3 /\ rec.queryStatic
  /\ "kv_num_heads" \notin DOMAIN rec.attrs
  /\ C15_Attr("num_heads", 0) # 0 /\ C15_Attr("local_window_size", -1) = -1
  /\ C15_Attr("smooth_softmax", 0) = 0 /\ C15_Attr("softcap", 0) = 0
  /\ outcome = "failure" /\ created = <<>>
  /\ diag = "kv_num_heads is a required attribute and should be non-zero"

C16_ArityMessage ==
  "Unimplemented:  excepted input operands to be either 7 or 9 based on the do_rotary attribute"

\* The checks before the arity check passed.
C16_ReachedArityCheck == rec.bindFail = "none" /\ rec.nResults = 3

\* C16: GroupQueryAttention passes its arity check if and only if the
\* operand count is 9, or is 7 with do_rotary = 0; so every operand read
\* (0..6 always, 7 and 8 with do_rotary set) is in bounds.
C16_ArityGuardsReads ==
  (rule = "GroupQueryAttention" /\ C16_ReachedArityCheck) =>
    /\ diag # C16_ArityMessage
         <=> (rec.nOperands = 9 \/ (rec.nOperands = 7 /\ C15_Attr("do_rotary", 0) = 0))
    /\ (rec.nOperands = 7 /\ C15_Attr("do_rotary", 0) # 0) =>
         (outcome = "failure" /\ diag = C16_ArityMessage)
    /\ diag # C16_ArityMessage =>
         (\A i \in GQAOperandReads(rec) : i < rec.nOperands)
    /\ ~ub /\ outcome # "crash"

\* C16's case: 7 operands with do_rotary set are declined by the arity
\* check although nothing else is wrong with the record.
C16_Witness ==
  /\ rule = "GroupQueryAttention" /\ C16_ReachedArityCheck
  /\ rec.nOperands = 7 /\ C15_Attr("do_rotary", 0) = 1
  /\ ~C15_Unsupported
  /\ outcome = "failure" /\ diag = C16_ArityMessage /\ created = <<>>

-----------------------------------------------------------------------------
(* Claims about the quantized rewrites.                                    *)

QuantizedRules ==
  { "QLinearAdd", "QLinearMul", "QLinearLeakyRelu", "QLinearSigmoid",
    "QLinearAveragePool", "QLinearGlobalAveragePool", "QLinearConcat" }

OperandName(i) == "operands[" \o ToString(i) \o "]"

OperandNames(t) == [i \in DOMAIN t |-> OperandName(t[i])]

\* The operand a scalar was extracted from by torch.aten.item.
C17_ItemOf(v) ==
  IF HasRes(created, v) /\ OpOf(created, v).op = "torch.aten.item"
    THEN OpOf(created, v).args[1] ELSE "?"

\* (input, scale, zero point) operands of every dequantized tensor.
C17_Dequantized ==
  { <<OpOf(created, d.args[1]).args[1],
      C17_ItemOf(OpOf(created, d.args[1]).args[2]),
      C17_ItemOf(OpOf(created, d.args[1]).args[3])>> :
    d \in OpsNamed(created, "torch.aten.dequantize.self") }

C17_ExpectedInputs ==
  IF rule \in {"QLinearAdd", "QLinearMul"}
    THEN {OperandNames(<<0, 1, 2>>), OperandNames(<<3, 4, 5>>)}
  ELSE IF rule = "QLinearConcat"
    THEN {OperandNames(<<2 + 3 * k, 3 + 3 * k, 4 + 3 * k>>) :
            k \in 0..(ConcatNumInputs(rec.nOperands) - 1)}
  ELSE {OperandNames(<<0, 1, 2>>)}

C17_ExpectedOutput ==
  IF rule \in {"QLinearAdd", "QLinearMul"} THEN OperandNames(<<6, 7>>)
  ELSE IF rule = "QLinearConcat" THEN OperandNames(<<0, 1>>)
  ELSE OperandNames(<<3, 4>>)

\* C17: every successful quantized rewrite dequantizes each quantized
\* input with that input's own (scale, zero point) operands, computes in
\* f32, requantizes with the output's (scale, zero point) to the dtype of
\* the declared result type, and ends in exactly one int_repr of the
\* declared result type, which replaces the operator.
C17_QuantizedRewrite ==
  (rule \in QuantizedRules /\ outcome = "success") =>
    /\ C17_Dequantized = C17_ExpectedInputs
    /\ CountOps(created, "torch.aten.dequantize.self") = Cardinality(C17_ExpectedInputs)
    /\ \A d \in OpsNamed(created, "torch.aten.dequantize.self") : d.ty.elem = "f32"
    /\ CountOps(created, "torch.aten.quantize_per_tensor") = 1
    /\ CountOps(created, "torch.aten.int_repr") = 1
    /\ LET q == OpOf(created, "quantized")
           last == created[Len(created)]
       IN /\ q.op = "torch.aten.quantize_per_tensor"
          /\ OpOf(created, q.args[1]).ty.elem = "f32"
          /\ <<C17_ItemOf(q.args[2]), C17_ItemOf(q.args[3])>> = C17_ExpectedOutput
          /\ q.ty.elem = "qresult"
          /\ last.op = "torch.aten.int_repr" /\ last.args = <<"quantized">>
          /\ last.ty.elem = "result"
          /\ replaced = <<last.res>>

\* C17's case: a QLinearConcat of two inputs succeeded.
C17_Witness ==
  /\ rule = "QLinearConcat" /\ outcome = "success" /\ rec.nOperands = 8
  /\ C17_Dequantized = {OperandNames(<<2, 3, 4>>), OperandNames(<<5, 6, 7>>)}
  /\ CountOps(created, "torch.aten.int_repr") = 1

-----------------------------------------------------------------------------
(* Claims about the RotaryEmbedding rule.                                  *)

C18_Attr(name, default) ==
  IF name \in DOMAIN rec.attrs THEN rec.attrs[name] ELSE default

C18_Const(res) == OpOf(created, res).val

\* C18: RotaryEmbedding uses the defaults scale = 1.0, interleaved = 0,
\* is_packed_batching = 0, num_heads = 0 and rotary_embedding_dim = 0 for
\* absent attributes; on success it replaces the operation with one
\* rotary-embedding op taking operands 0..3 in that order, with the
\* declared result type; when the result type cannot be bound it fails
\* before creating any constant.
C18_RotaryEmbedding ==
  rule = "RotaryEmbedding" =>
    /\ outcome = "success" =>
         /\ Len(created) = 6
         /\ C18_Const("cstInterleaved") = C18_Attr("interleaved", 0)
         /\ C18_Const("cstIsPackedBatching") = C18_Attr("is_packed_batching", 0)
         /\ C18_Const("cstNumHeads") = C18_Attr("num_heads", 0)
         /\ C18_Const("cstRotaryEmbeddingDim") = C18_Attr("rotary_embedding_dim", 0)
         /\ C18_Const("cstScale") = C18_Attr("scale", 1)
         /\ CountOps(created, "torch.onnx.rotary_embedding") = 1
         /\ LET op == created[6]
            IN /\ op.op = "torch.onnx.rotary_embedding"
               /\ SubSeq(op.args, 1, 4) = OperandNames(<<0, 1, 2, 3>>)
               /\ SubSeq(op.args, 5, 9) =
                    << "cstInterleaved", "cstIsPackedBatching", "cstNumHeads",
                       "cstRotaryEmbeddingDim", "cstScale" >>
               /\ op.ty.elem = "result"
               /\ replaced = <<op.res>>
    /\ (rec.nOperands >= 4 /\ rec.attrsBind /\ ~rec.resultBinds) =>
         (outcome = "failure" /\ created = <<>> /\ replaced = <<>>
            /\ diag = "result type bind failure")
    /\ (rec.nOperands >= 4 /\ rec.attrsBind /\ rec.resultBinds) => outcome = "success"

\* C18's case: a successful rewrite of an operator that carries only
\* num_heads; the other four constants hold the defaults.
C18_Witness ==
  /\ rule = "RotaryEmbedding" /\ outcome = "success"
  /\ DOMAIN rec.attrs = {"num_heads"}
  /\ C18_Const("cstScale") = 1 /\ C18_Const("cstInterleaved") = 0
  /\ C18_Const("cstNumHeads") = rec.attrs["num_heads"]

-----------------------------------------------------------------------------
(* Claims about the position ids of the GroupQueryAttention rotary path.   *)

\* The position id the reference computation gives row b, column j
\* (1-based here; the column index of the claim is j - 1).
C19_Expected(b, j) ==
  LET total == rec.seqlensK[b] + 1
      p == (j - 1) + total - rec.queryDims[2]
  IN IF p < total THEN p ELSE 1

C19_IdsAsExpected ==
  /\ DOMAIN sem.positionIds = 1..rec.queryDims[1]
  /\ \A b \in DOMAIN sem.positionIds :
       /\ DOMAIN sem.positionIds[b] = 1..rec.queryDims[2]
       /\ \A j \in DOMAIN sem.positionIds[b] : sem.positionIds[b][j] = C19_Expected(b, j)

\* The predicate is broadcast to (batch, sequence) by aten.full and selects
\* the computed ids over the fresh-prompt ids with aten.where.self.
C19_Selects ==
  LET ty == TensorTy(<<rec.queryDims[1], rec.queryDims[2]>>)
      full == OpOf(created, "isSubsequentPrompt.full")
      ids == OpOf(created, "positionIds")
  IN /\ full.op = "torch.aten.full" /\ full.ty = ty
     /\ full.args[1] = "posIdsSizeList" /\ full.args[2] = "isSubsequentPrompt.int"
     /\ ids.op = "torch.aten.where.self" /\ ids.ty = ty
     /\ ids.args = <<"isSubsequentPrompt.full", "positionIdsB.where", "positionIdsA">>

\* C19: in GroupQueryAttention with do_rotary set and the continuation
\* predicate true, the position id at batch row b and column j is
\* p = j + (seqlens_k[b] + 1) - sequence_length when p < seqlens_k[b] + 1
\* and the sentinel 1 otherwise, for every batch row b and column j of the
\* (batch, sequence) ids, and the broadcast predicate selects the computed
\* ids over the fresh-prompt ids elementwise.
C19_ContinuationIds ==
  (GQARotaryDone /\ sem.isSubsequentPrompt) =>
    /\ C19_IdsAsExpected
    /\ C19_Selects

\* What the code does in C19's case: with a single batch row the views fit
\* and the ids are the claimed ones; with more rows the views ask for
\* sizes (1, 1), and the ids are the claimed ones only if the views are
\* evaluated by their declared (batch, 1) type.
C19_DeclaredTypeReading ==
  (GQARotaryDone /\ sem.isSubsequentPrompt) =>
    /\ C19_Selects
    /\ rec.queryDims[1] = 1 => (sem.viewFits /\ C19_IdsAsExpected)
    /\ sem.positionIds # <<>> => C19_IdsAsExpected

\* C20: in the rotary path the per-batch past-length and total-length
\* vectors are reshaped with the view size list (-1, 1), so for every
\* batch_size >= 1 the requested sizes fit the vector and agree with the
\* declared (batch_size, 1) result type.
C20_ViewSizes ==
  GQARotaryDone =>
    /\ sem.viewSizeList = <<-1, 1>>
    /\ OpOf(created, "viewSizeList").args = <<"cstIntMinusOne", "cstIntOne">>
    /\ OpOf(created, "cstIntMinusOne").val = -1
    /\ sem.viewFits
    /\ \A v \in {"pastSeqLens.view", "totalSeqLens.view"} :
         /\ OpOf(created, v).op = "torch.aten.view"
         /\ OpOf(created, v).args[2] = "viewSizeList"
         /\ OpOf(created, v).ty = TensorTy(<<rec.queryDims[1], 1>>)

\* What the code does in C20's case: the size list is (1, 1), which fits
\* the per-batch vectors only when batch_size = 1.
C20_CodeViewSizes ==
  GQARotaryDone =>
    /\ sem.viewSizeList = <<1, 1>>
    /\ sem.viewFits <=> rec.queryDims[1] = 1
    /\ \A v \in {"pastSeqLens.view", "totalSeqLens.view"} :
         OpOf(created, v).ty = TensorTy(<<rec.queryDims[1], 1>>)

-----------------------------------------------------------------------------
(* Claims about the reshapes of the GroupQueryAttention rule.              *)

GQADone == rule = "GroupQueryAttention" /\ outcome = "success"

\* C21: for every GroupQueryAttention record that passes validation,
\* num_heads * head_size = hidden_size, so the query reshape from
\* (batch, sequence, hidden) to (batch, num_heads, sequence, head_size)
\* preserves the element count.
C21_ReshapeKeepsCount ==
  GQADone =>
    LET sizes == OpOf(created, "qInput").ty.sizes
    IN /\ sizes[2] = rec.attrs["num_heads"]
       /\ sizes[2] * sizes[4] = rec.queryDims[3]
       /\ Product(sizes) = Product(rec.queryDims)

\* What the code does in C21's case: head_size is the truncated quotient,
\* whether or not num_heads divides hidden_size.
C21_CodeHeadSize ==
  GQADone =>
    LET sizes == OpOf(created, "qInput").ty.sizes
    IN /\ sizes = <<rec.queryDims[1], rec.attrs["num_heads"], rec.queryDims[2],
                    rec.queryDims[3] \div rec.attrs["num_heads"]>>
       /\ OpOf(created, "cstHeadSize").val = rec.queryDims[3] \div rec.attrs["num_heads"]

-----------------------------------------------------------------------------
(* Claims about the ExtF/TruncF cleanup.                                   *)

\* The function the cleanup is applied to: the one the conversion left.
C22_Converted == applyFullConversion(func0).func

\* truncf is a truncf of an extf of x, and has the type of x.
C22_FoldsTo(f, truncf) ==
  /\ truncf.kind = "arith.truncf"
  /\ truncf.arg # 0
  /\ DefiningOp(f, truncf.arg).kind = "arith.extf"
  /\ truncf.ty = TypeOf(f, DefiningOp(f, truncf.arg).arg)

\* C22: the cleanup replaces truncf(extf(x)) by x if and only if the
\* truncf result type equals the type of x; a truncf whose operand is not
\* produced by an extf, or whose type differs from that of x, is left
\* unchanged, and the extf itself is never rewritten by the pattern.
C22_ExtFTruncF ==
  pc = "done" =>
    LET f == C22_Converted
    IN /\ \A o \in OpsOf(f) :
            /\ ExtFTruncFPattern(f, o) <=> C22_FoldsTo(f, o)
            /\ C22_FoldsTo(f, o) =>
                 LET extf == DefiningOp(f, o.arg)
                     g == replaceOp(f, o, extf.arg)
                 IN /\ o \notin OpsOf(g)
                    /\ extf \in OpsOf(g)
                    /\ Len(g.ops) = Len(f.ops) - 1
                    /\ \A u \in OpsOf(f) \ {o} :
                         (IF u.arg = o.id THEN [u EXCEPT !.arg = extf.arg] ELSE u) \in OpsOf(g)
       /\ variant = "default" =>
            /\ \A o \in OpsOf(func) : ~C22_FoldsTo(func, o)
            /\ \A o \in OpsOf(f) :
                 (o.kind = "arith.truncf" /\ ~C22_FoldsTo(f, o)
                    /\ \E u \in OpsOf(f) : u.arg = o.id /\ u.kind \in {"func.return", "test.op"})
                   => o \in OpsOf(func)

\* C22's case: the function returns truncf(extf(%arg0)) of the argument's
\* type, and after the default pass it returns the argument itself.
C22_Witness ==
  /\ pc = "done" /\ variant = "default" /\ ~passFailed
  /\ Len(func0.ops) = 3
  /\ func0.ops[1].kind = "arith.extf" /\ func0.ops[1].arg = 0
  /\ func0.ops[2].kind = "arith.truncf" /\ func0.ops[2].arg = 1
  /\ func0.ops[2].ty = func0.argTy
  /\ func0.ops[3].kind = "func.return" /\ func0.ops[3].arg = 2
  /\ Len(func.ops) = 1 /\ func.ops[1].kind = "func.return" /\ func.ops[1].arg = 0

-----------------------------------------------------------------------------
(* Claims about stripTorchAttrs.                                           *)

C23_HasTorchAttr(as) == \E i \in DOMAIN as : as[i][1] = "torch"

\* C23: stripTorchAttrs removes exactly the dialect attributes whose name
\* starts with "torch." and keeps every other one in the original relative
\* order; when the function has no such attribute its attribute list is
\* not written at all; applying it twice gives the result of applying it
\* once.
C23_StripTorchAttrs ==
  pc = "done" =>
    /\ AttrsStripped(attrs0, attrs)
    /\ Len(attrs) = Cardinality({i \in DOMAIN attrs0 : attrs0[i][1] # "torch"})
    /\ attrsWritten <=> C23_HasTorchAttr(attrs0)
    /\ ~C23_HasTorchAttr(attrs0) => attrs = attrs0
    /\ stripTorchAttrs(attrs) = [modified |-> FALSE, attrs |-> attrs]

\* C23's case: torch_c.note is kept and torch.debug_module_name removed.
C23_Witness ==
  /\ pc = "done"
  /\ attrs0 = << <<"torch_c", "note">>, <<"torch", "debug_module_name">> >>
  /\ attrs = << <<"torch_c", "note">> >>
  /\ attrsWritten

-----------------------------------------------------------------------------
(* Claims about the operand reads of QLinearConcat.                        *)

C24_Case ==
  rule = "QLinearConcat" /\ rec.operandsBind /\ rec.attrsBind /\ rec.resultBinds

C24_CountMessage == "Incompatible number of input operands, scales and/or zero-points"

\* C24: QLinearConcat never reads past its operand list or into an empty
\* list: for every operand count n, either the rule declines with the
\* count diagnostic without having read an operand index >= n, or
\* n = 2 + 3k with k >= 1 and every read is in bounds.
C24_ConcatReadsInBounds ==
  C24_Case =>
    /\ ~ub /\ outcome # "crash"
    /\ \A i \in ConcatLoopReads(rec.nOperands) : i < rec.nOperands
    /\ \/ outcome = "failure" /\ diag = C24_CountMessage
       \/ \E k \in 1..rec.nOperands : rec.nOperands = 2 + 3 * k

\* What the code does in C24's case: the grouping loop reads operands
\* i + 1 and i + 2 before the count is checked, so it reads past the list
\* unless n - 2 is a multiple of 3, and with n = 2 the count check passes
\* and dequantizedInputs[0] is read from an empty list.
C24_CodeReads ==
  C24_Case =>
    LET n == rec.nOperands
        past == n >= 3 /\ (n - 2) % 3 # 0
        emptyList == n = 2
    IN /\ past <=> (\E i \in ConcatLoopReads(n) : i >= n)
       /\ ub <=> (past \/ emptyList)
       /\ n < 2 => (outcome = "failure" /\ diag = C24_CountMessage /\ created = <<>>)

-----------------------------------------------------------------------------
(* Claims about QLinearGlobalAveragePool.                                  *)

\* The rule got as far as the kernel loop.
C25_Case ==
  /\ rule = "QLinearGlobalAveragePool"
  /\ rec.nOperands = 5 /\ rec.resultBinds /\ rec.attrsBind /\ rec.channelsLast = 0
  /\ rec.xTy.hasSizes /\ rec.resTy.hasSizes
  /\ rec.perTensor["x"] /\ rec.perTensor["y"]

\* The pool of the rank with kernel, stride and padding lists as claimed.
C25_PoolAsClaimed ==
  LET inputShape == rec.xTy.sizes
      resultShape == rec.resTy.sizes
      r == Len(inputShape)
      pool == OpOf(created, "avgpool")
      kernel == OpOf(created, pool.args[2]).args
      strides == OpOf(created, pool.args[3]).args
      padding == OpOf(created, pool.args[4]).args
  IN /\ pool.op = (CASE r = 3 -> "torch.aten.avg_pool1d"
                     [] r = 4 -> "torch.aten.avg_pool2d"
                     [] r = 5 -> "torch.aten.avg_pool3d")
     /\ pool.args[1] = "x"
     /\ Len(kernel) = r - 2 /\ Len(strides) = r - 2 /\ Len(padding) = r - 2
     /\ \A k \in 1..(r - 2) :
          LET i == k + 1
              kv == OpOf(created, kernel[k])
          IN /\ IF inputShape[i + 1] = -1
                  THEN /\ kv.op = "torch.aten.size.int" /\ kv.args[1] = "x"
                       /\ OpOf(created, kv.args[2]).val = i
                  ELSE /\ kv.op = "torch.constant.int"
                       /\ i + 1 \in DOMAIN resultShape
                       /\ kv.val = inputShape[i + 1] - resultShape[i + 1] + 1
             /\ OpOf(created, strides[k]).op = "torch.constant.int"
             /\ OpOf(created, strides[k]).val = 1
             /\ OpOf(created, padding[k]).op = "torch.constant.int"
             /\ OpOf(created, padding[k]).val = 0

\* C25: QLinearGlobalAveragePool with input rank r in {3, 4, 5} emits the
\* 1-d, 2-d or 3-d average pool with kernel, stride and padding lists of
\* length r - 2, kernel[i] = inputShape[i] - resultShape[i] + 1 for a
\* static dim and the run-time size for a dynamic one, strides 1 and
\* paddings 0; every read of resultShape[i] is within the result's rank;
\* for any other rank the rule declines.
C25_GlobalAveragePool ==
  C25_Case =>
    /\ ~ub /\ outcome # "crash"
    /\ \A i \in PoolResultShapeReads(rec.xTy.sizes) : i < Len(rec.resTy.sizes)
    /\ IF Len(rec.xTy.sizes) \in {3, 4, 5}
         THEN outcome = "success" /\ C25_PoolAsClaimed
         ELSE outcome = "failure" /\ replaced = <<>>

\* What the code does in C25's case: the result's rank is never compared
\* with the input's, so resultShape[i] is read past its end when the
\* declared result has fewer dimensions than the input has static spatial
\* positions; with a result of the input's rank everything is as claimed.
C25_CodeReads ==
  C25_Case =>
    /\ ub <=> (\E i \in PoolResultShapeReads(rec.xTy.sizes) : i >= Len(rec.resTy.sizes))
    /\ ~ub =>
         IF Len(rec.xTy.sizes) \in {3, 4, 5}
           THEN outcome = "success" /\ C25_PoolAsClaimed
           ELSE outcome = "failure" /\ replaced = <<>>

-----------------------------------------------------------------------------
(* Claims about the data flow through bridging operations.                 *)

\* The value n steps up the chain of bridging operations that produce v.
RECURSIVE C26_Walk(_, _, _)
C26_Walk(f, v, n) ==
  IF n = 0 \/ v = 0 \/ DefiningOp(f, v).kind \notin TheTenBridgingKinds THEN v
  ELSE C26_Walk(f, DefiningOp(f, v).arg, n - 1)

\* g is f without its bridging operations, every use looking through them.
C26_FlowPreserved(f, g) ==
  /\ g.argTy = f.argTy
  /\ \A o \in OpsOf(f) :
       o.kind \notin TheTenBridgingKinds =>
         \E i \in DOMAIN g.ops :
           g.ops[i] = [o EXCEPT !.arg = C26_Walk(f, o.arg, Len(f.ops))]
  /\ Len(g.ops) = Cardinality({o \in OpsOf(f) : o.kind \notin TheTenBridgingKinds})

\* Every operand is the block argument or the result of an earlier
\* operation of the function.
C26_NoDanglingUse(g) ==
  \A i \in DOMAIN g.ops :
    g.ops[i].arg = 0 \/ \E j \in 1..(i - 1) : g.ops[j].id = g.ops[i].arg

\* C26: after a successful finalizing pass every former use of a bridging
\* operation's result uses that operation's converted operand instead, a
\* chain such as to(from(x)) collapses to x itself, no use is left
\* dangling and no other value is substituted.
C26_BridgingKeepsDataFlow ==
  (pc = "done" /\ ~passFailed) =>
    /\ C26_FlowPreserved(func0, applyFullConversion(func0).func)
    /\ variant = "stablehlo" => C26_FlowPreserved(func0, func)
    /\ C26_NoDanglingUse(func)

\* C26's case: return(to(from(%arg0))) becomes return(%arg0).
C26_Witness ==
  /\ pc = "done" /\ ~passFailed /\ variant = "stablehlo"
  /\ func0.argTy = "tensor"
  /\ func0.ops = << FuncOp(1, "FromBuiltinTensor", 0, "!torch.vtensor"),
                    FuncOp(2, "ToBuiltinTensor", 1, "tensor"),
                    FuncOp(3, "func.return", 2, "none") >>
  /\ func.ops = << FuncOp(3, "func.return", 0, "none") >>

-----------------------------------------------------------------------------
(* Claims about the declared types of the rotary embeddings.               *)

\* A GroupQueryAttention record rewritten along its rotary path.
C27_Case ==
  /\ rule = "GroupQueryAttention" /\ outcome = "success"
  /\ "do_rotary" \in DOMAIN rec.attrs /\ rec.attrs["do_rotary"] # 0

\* (batch, heads, sequence_length, head_size) of the rewritten record.
C27_Shape(heads) ==
  << rec.queryDims[1], heads, rec.queryDims[2],
     OpOf(created, "cstHeadSize").val >>

\* C27: in the rotary path the rotary-embedded key is declared with the
\* shape of the reshaped key, (batch, kv_num_heads, sequence_length,
\* head_size), also when kv_num_heads differs from num_heads, and the
\* rotary-embedded query with (batch, num_heads, sequence_length, head_size).
C27_RotaryTypes ==
  C27_Case =>
    /\ OpOf(created, "kInput").ty.sizes = C27_Shape(rec.attrs["kv_num_heads"])
    /\ OpOf(created, "kRotary").ty.sizes = C27_Shape(rec.attrs["kv_num_heads"])
    /\ OpOf(created, "kRotary").ty.sizes = OpOf(created, "kInput").ty.sizes
    /\ OpOf(created, "qRotary").ty.sizes = C27_Shape(rec.attrs["num_heads"])

\* What the code declares: both rotary embeddings carry the type of the
\* reshaped query, the reshaped key carries the key shape.
C27_CodeRotaryTypes ==
  C27_Case =>
    /\ OpOf(created, "kInput").ty.sizes = C27_Shape(rec.attrs["kv_num_heads"])
    /\ OpOf(created, "kRotary").ty = OpOf(created, "qInput").ty
    /\ OpOf(created, "qRotary").ty = OpOf(created, "qInput").ty
    /\ OpOf(created, "qInput").ty.sizes = C27_Shape(rec.attrs["num_heads"])

\* A rewritten rotary record whose kv_num_heads differs from num_heads.
C27_GroupedCase ==
  C27_Case /\ rec.attrs["kv_num_heads"] # rec.attrs["num_heads"]

-----------------------------------------------------------------------------
(* Claims about the clamp of the continuation position ids.                *)

\* C28: in the computed (continuation) position set, for every batch row
\* b and every column 0 <= j < sequence_length, the unclamped index
\* j + (seqlens_k[b] + 1) - sequence_length is at most seqlens_k[b], hence
\* strictly less than seqlens_k[b] + 1: the clamp condition is always true
\* and the sentinel value 1 is never selected.
C28_ClampNeverSelects ==
  GQARotaryDone =>
    \A b \in DOMAIN sem.unclamped :
      /\ DOMAIN sem.unclamped[b] = 1..rec.queryDims[2]
      /\ \A j \in DOMAIN sem.unclamped[b] :
           /\ sem.unclamped[b][j] = (j - 1) + (rec.seqlensK[b] + 1) - rec.queryDims[2]
           /\ sem.unclamped[b][j] <= rec.seqlensK[b]
           /\ sem.unclamped[b][j] < rec.seqlensK[b] + 1
           /\ sem.cond[b][j] = TRUE
           /\ sem.positionIdsB[b][j] = sem.unclamped[b][j]

\* C28's case: two rows, three columns, the last column of the second row
\* reaching seqlens_k[b] itself.
C28_Witness ==
  /\ GQARotaryDone
  /\ rec.queryDims[1] = 2 /\ rec.queryDims[2] = 3
  /\ rec.seqlensK = <<0, 3>>
  /\ sem.unclamped = << <<-2, -1, 0>>, <<1, 2, 3>> >>
  /\ sem.positionIdsB = sem.unclamped
  /\ OpOf(created, "positionIdsB.where").args = <<"cond", "positionIdsB.add", "cstOneTensor">>

-----------------------------------------------------------------------------
(* Claims about the order of the steps of the default finalizing pass.     *)

\* No operation of f is left for the ExtF/TruncF cleanup to change.
C29_CleanedUp(f) ==
  \A o \in OpsOf(f) : ~ExtFTruncFPattern(f, o) /\ ~isOpTriviallyDead(f, o)

\* C29: in the default finalizing pass the three steps run unconditionally
\* and in the order bridging elimination, ExtF/TruncF cleanup, attribute
\* stripping; when the conversion fails the pass signals failure but still
\* runs the cleanup and still strips the attributes, so after every
\* invocation the function carries no attribute prefixed with "torch.".
C29_StepsRunUnconditionally ==
  (pc = "done" /\ variant = "default") =>
    /\ stepsRun = <<"applyFullConversion", "applyPatternsGreedily", "stripTorchAttrs">>
    /\ passFailed <=> ~applyFullConversion(func0).ok
    /\ passFailed => func = applyPatternsGreedily(func0)
    /\ C29_CleanedUp(func)
    /\ \A i \in DOMAIN attrs : attrs[i][1] # "torch"
    /\ AttrsStripped(attrs0, attrs)

\* C29's case: the conversion fails on an operation of a torch type, and
\* the unused arith.extf is still erased and the attribute still stripped.
C29_Witness ==
  /\ pc = "done" /\ variant = "default" /\ passFailed
  /\ func0.argTy = "f32"
  /\ func0.ops = << FuncOp(1, "test.op", 0, "!torch.vtensor"),
                    FuncOp(2, "arith.extf", 0, "f64"),
                    FuncOp(3, "func.return", 0, "none") >>
  /\ func.ops = << FuncOp(1, "test.op", 0, "!torch.vtensor"),
                   FuncOp(3, "func.return", 0, "none") >>
  /\ attrs0 = << <<"torch", "debug_module_name">>, <<"llvm", "emit_c_interface">> >>
  /\ attrs = << <<"llvm", "emit_c_interface">> >>

-----------------------------------------------------------------------------
(* Claims about the operator QLinearAveragePool builds.                    *)

C30_Case == rule = "QLinearAveragePool" /\ outcome = "success"

\* The attributes of the original operator other than its "name", in order.
C30_Others == SelectSeq(rec.attrDictionary, LAMBDA a : a[1] # "name")

\* C30: QLinearAveragePool builds the replacement onnx.AveragePool operator
\* with exactly one "name" attribute, equal to "onnx.AveragePool" and placed
\* first, followed by every other attribute of the original operation in
\* its original order (the original "name" is the only attribute dropped),
\* with the dequantized x as its only operand.
C30_AveragePoolOperator ==
  C30_Case =>
    /\ CountOps(created, "torch.operator") = 1
    /\ LET pool == OpOf(created, "averagePool")
           new == pool.attrs
       IN /\ pool.op = "torch.operator"
          /\ Cardinality({i \in DOMAIN new : new[i][1] = "name"}) = 1
          /\ new[1] = <<"name", "onnx.AveragePool">>
          /\ Len(new) = Len(rec.attrDictionary)
          /\ \A i \in 1..Len(C30_Others) : new[i + 1] = C30_Others[i]
          /\ Len(C30_Others) = Len(rec.attrDictionary) - 1
          /\ pool.args = <<"x">>
          /\ OpOf(created, "x").op = "torch.aten.dequantize.self"
          /\ OpOf(created, OpOf(created, "x").args[1]).args[1] = "operands[0]"

\* C30's case: an operator with a kernel shape and strides.
C30_Witness ==
  /\ C30_Case
  /\ rec.attrDictionary = << <<"name", "onnx.QLinearAveragePool">>,
                             <<"torch.onnx.kernel_shape", "[2, 2]">>,
                             <<"torch.onnx.strides", "[1, 1]">> >>
  /\ OpOf(created, "averagePool").attrs =
       << <<"name", "onnx.AveragePool">>,
          <<"torch.onnx.kernel_shape", "[2, 2]">>,
          <<"torch.onnx.strides", "[1, 1]">> >>

=============================================================================
